---- MODULE Spec2Model ----
(***************************************************************************)
(* A model of the DynamoRIO sample client memtrace_x86                      *)
(* (api/samples/memtrace_x86.c): per-thread buffers of mem_ref_t records    *)
(* filled by inlined code, dumped by memtrace() through the shared code     *)
(* cache ("lean procedure") when full and at thread exit, and the global    *)
(* num_refs counter merged under the mutex at thread exit.                  *)
(*                                                                         *)
(* Output to the per-thread log succeeds and the host has memory in every   *)
(* behaviour of Spec; SpecWriteFails adds flushes whose writes fail and     *)
(* SpecOutOfMemory adds allocations the host cannot make.                   *)
(***************************************************************************)
EXTENDS Integers, Sequences, FiniteSets, TLC

VARIABLES
    spc,            \* session position: dr_client_main / event_exit, "fatal" once aborted
    mutex,          \* the global mutex: [state, owner]
    code_cache,     \* the lean procedure's page: "none", "rx", "freed"
    num_refs,       \* static uint64 num_refs
    reported,       \* the count event_exit printed, NoVal before
    tpc,            \* each thread's position ("crashed": lost by a wild jump,
                    \* "dead": the process was ended)
    data_alloc,     \* per_thread_t allocation: "none", "live", "freed"
    buf_alloc,      \* data->buf_base allocation: "none", "live", "freed"
    buf_base,       \* data->buf_base
    buf_ptr,        \* data->buf_ptr
    buf_end,        \* data->buf_end (negated end address)
    buf,            \* the buffer's slots, 0 .. MAX_NUM_MEM_REFS-1
    data_num_refs,  \* data->num_refs
    log,            \* the lines written to data->log
    log_open,       \* data->log: "none", "open", "closed"
    tmp,            \* the value of num_refs loaded by num_refs += ...
    cur,            \* the instruction a thread is executing (index in Instrs, 0: none)
    opi,            \* which injected sequence of that instruction is next
    ninstr,         \* instructions the thread has started
    executed,       \* history: the qualifying accesses the thread executed
    nflush_auto,    \* history: calls of memtrace through the code cache
    nflush_exit,    \* history: calls of memtrace from event_thread_exit
    merged,         \* history: what the thread added to num_refs, NoVal before
    exit_steps,     \* history: the steps of event_thread_exit the thread has done
    xbx,            \* each thread's register XBX (reg1 of instrument_mem)
    xcx,            \* each thread's register XCX (reg2 of instrument_mem)
    slot2,          \* each thread's SPILL_SLOT_2
    slot3,          \* each thread's SPILL_SLOT_3
    lost,           \* history: records of a thread whose write to the log failed
    failure_reports,\* failures the client has reported to the user
    reserved,       \* drreg: the registers reserved in the current drcontext
    dtest,          \* drreg test client: the frame of event_app_instruction
    dcall,          \* history: the last call of drreg and what it returned
    cbr_tpc,        \* cbrtrace: each thread's position
    cbr_tls,        \* cbrtrace: each thread's TLS field
    cbr_files,      \* cbrtrace: the log files, by descriptor
    cbr_cache,      \* cbrtrace: the blocks built so far, as instrumented
    cbr_taken       \* history: the conditional branches each thread executed

vars == <<spc, mutex, code_cache, num_refs, reported, tpc, data_alloc, buf_alloc,
          buf_base, buf_ptr, buf_end, buf, data_num_refs, log, log_open, tmp,
          cur, opi, ninstr, executed, nflush_auto, nflush_exit, merged, exit_steps,
          xbx, xcx, slot2, slot3, lost, failure_reports,
          reserved, dtest, dcall, cbr_tpc, cbr_tls, cbr_files, cbr_cache, cbr_taken>>

-----------------------------------------------------------------------------
(* Bounds of the model *)

\* threads of the application
NumThreads == 2
\* instructions the application executes in all, over all its threads
MaxInstrs == 2
\* #define MAX_NUM_MEM_REFS 8192, scaled down
MAX_NUM_MEM_REFS == 2
\* pointers are PtrBits wide (ptr_int_t), scaled down
PtrBits == 12

(* Program constants *)

\* sizeof(mem_ref_t): bool write (padded), void *addr, size_t size, app_pc pc
RecordSize == 32
NULL == 0

Threads == 1..NumThreads

RECURSIVE SumTo(_, _)
SumTo(f, n) == IF n = 0 THEN 0 ELSE f[n] + SumTo(f, n - 1)
NoVal == 0 - 1
PtrMod == 2^PtrBits
MEM_BUF_SIZE == RecordSize * MAX_NUM_MEM_REFS

\* What the application holds in XBX and XCX while the thread runs; the
\* application instructions of the model leave the two registers alone.
AppXBX(t) == 512 + t
AppXCX(t) == 768 + t

\* The address dr_thread_alloc returns for a thread's buffer: one region each.
BufAddr(t) == t * 2 * MEM_BUF_SIZE

-----------------------------------------------------------------------------
(* Instructions handed to the client *)

Reg == [mem |-> FALSE, addr |-> 0, size |-> 0]
Mem(a, s) == [mem |-> TRUE, addr |-> a, size |-> s]

\* The instructions the application executes: add, load, store, an instruction
\* with two memory sources and one memory destination, and an instruction
\* without application address.
Instrs ==
    << [pc |-> 16, srcs |-> <<Reg, Reg>>, dsts |-> <<Reg>>],
       [pc |-> 20, srcs |-> <<Mem(64, 4)>>, dsts |-> <<Reg>>],
       [pc |-> 24, srcs |-> <<Reg>>, dsts |-> <<Mem(72, 8)>>],
       [pc |-> 28, srcs |-> <<Mem(80, 1), Reg, Mem(81, 1)>>,
                   dsts |-> <<Reg, Mem(96, 2)>>],
       [pc |-> NULL, srcs |-> <<Mem(64, 4)>>, dsts |-> <<Mem(72, 8)>>] >>

instr_get_app_pc(ins) == ins.pc
instr_num_srcs(ins) == Len(ins.srcs)
instr_num_dsts(ins) == Len(ins.dsts)
\* operand positions are 0-based in the client
instr_get_src(ins, i) == ins.srcs[i + 1]
instr_get_dst(ins, i) == ins.dsts[i + 1]
opnd_is_memory_reference(op) == op.mem
instr_reads_memory(ins) == \E i \in 1..Len(ins.srcs) : ins.srcs[i].mem
instr_writes_memory(ins) == \E i \in 1..Len(ins.dsts) : ins.dsts[i].mem

\* instrument_mem: the site it injects before the instruction, described by
\* what the injected code stores into the mem_ref_t at buf_ptr.
instrument_mem(ins, pos, write) ==
    LET ref == IF write THEN instr_get_dst(ins, pos) ELSE instr_get_src(ins, pos)
    IN [write |-> IF write THEN 1 ELSE 0,
        addr  |-> ref.addr,
        size  |-> ref.size,
        pc    |-> instr_get_app_pc(ins)]

RECURSIVE InsertSrcs(_, _)
InsertSrcs(ins, i) ==
    IF i >= instr_num_srcs(ins) THEN <<>>
    ELSE (IF opnd_is_memory_reference(instr_get_src(ins, i))
          THEN <<instrument_mem(ins, i, FALSE)>> ELSE <<>>)
         \o InsertSrcs(ins, i + 1)

RECURSIVE InsertDsts(_, _)
InsertDsts(ins, i) ==
    IF i >= instr_num_dsts(ins) THEN <<>>
    ELSE (IF opnd_is_memory_reference(instr_get_dst(ins, i))
          THEN <<instrument_mem(ins, i, TRUE)>> ELSE <<>>)
         \o InsertDsts(ins, i + 1)

\* event_bb_insert: the sites injected before one instruction, in the order
\* they execute (each is inserted before the instruction, after the earlier ones).
event_bb_insert_dst_first(ins) ==
    IF instr_get_app_pc(ins) = NULL THEN <<>>
    ELSE (IF instr_writes_memory(ins) THEN InsertDsts(ins, 0) ELSE <<>>)
         \o (IF instr_reads_memory(ins) THEN InsertSrcs(ins, 0) ELSE <<>>)

\* event_bb_insert without the test of the application address
event_bb_insert_any_pc(ins) ==
    (IF instr_reads_memory(ins) THEN InsertSrcs(ins, 0) ELSE <<>>)
    \o (IF instr_writes_memory(ins) THEN InsertDsts(ins, 0) ELSE <<>>)

event_bb_insert(ins) ==
    IF instr_get_app_pc(ins) = NULL THEN <<>>
    ELSE (IF instr_reads_memory(ins) THEN InsertSrcs(ins, 0) ELSE <<>>)
         \o (IF instr_writes_memory(ins) THEN InsertDsts(ins, 0) ELSE <<>>)

\* The memory accesses an application instruction performs when it executes:
\* its memory sources are read, its memory destinations written.
RECURSIVE OpndAccesses(_, _, _)
OpndAccesses(ops, w, pc) ==
    IF ops = <<>> THEN <<>>
    ELSE (IF Head(ops).mem
          THEN <<[write |-> w, addr |-> Head(ops).addr, size |-> Head(ops).size,
                  pc |-> pc]>>
          ELSE <<>>) \o OpndAccesses(Tail(ops), w, pc)

Accesses(ins) ==
    IF ins.pc = NULL THEN <<>>
    ELSE OpndAccesses(ins.srcs, 0, ins.pc) \o OpndAccesses(ins.dsts, 1, ins.pc)

-----------------------------------------------------------------------------
(* The buffer and the log *)

ZeroRef == [write |-> 0, addr |-> 0, size |-> 0, pc |-> 0]
\* what dr_thread_alloc leaves in a slot: not initialized
Garbage == [write |-> NoVal, addr |-> NoVal, size |-> NoVal, pc |-> NoVal]
Slots == 0..(MAX_NUM_MEM_REFS - 1)

\* (mem_ref_t *)p - (mem_ref_t *)q
RefDiff(p, q) == (p - q) \div RecordSize

FormatHeader == <<"Format">>
\* dr_fprintf(PFX",%c,%d,"PFX"\n", pc, write ? 'w' : 'r', size, addr)
FormatRef(r) == <<r.pc, IF r.write # 0 THEN "w" ELSE "r", r.size, r.addr>>
\* a record line of the log read back as (direction, size, address, origin_pc)
ParseRef(l) == [write |-> IF l[2] = "w" THEN 1 ELSE 0, addr |-> l[4],
                size |-> l[3], pc |-> l[1]]

IsRefLine(l) == Len(l) = 4

\* the loop of memtrace without ++mem_ref
RECURSIVE DumpRefs_no_advance(_, _, _)
DumpRefs_no_advance(b, i, n) ==
    IF i >= n THEN <<>> ELSE <<FormatRef(b[0])>> \o DumpRefs_no_advance(b, i + 1, n)

\* the loop of memtrace over the mem_refs from buf_base up to buf_ptr
RECURSIVE DumpRefs(_, _, _)
DumpRefs(b, i, n) ==
    IF i >= n THEN <<>> ELSE <<FormatRef(b[i])>> \o DumpRefs(b, i + 1, n)

RECURSIVE MapParse(_)
MapParse(ls) == IF ls = <<>> THEN <<>> ELSE <<ParseRef(Head(ls))>> \o MapParse(Tail(ls))

LogRefsOf(ls) == MapParse(SelectSeq(ls, IsRefLine))
LogRefs(t) == LogRefsOf(log[t])
Pending(t) == RefDiff(buf_ptr[t], buf_base[t])
PendingRefs(t) == [i \in 1..Pending(t) |-> buf[t][i - 1]]

\* memtrace that clears the buffer before it dumps it
memtrace_clear_first(t) ==
    LET n == RefDiff(buf_ptr[t], buf_base[t])
        cleared == [i \in Slots |-> ZeroRef]
    IN /\ buf' = [buf EXCEPT ![t] = cleared]
       /\ log' = [log EXCEPT ![t] = @ \o <<FormatHeader>> \o DumpRefs(cleared, 0, n)]
       /\ data_num_refs' = [data_num_refs EXCEPT ![t] = @ + n]
       /\ buf_ptr' = [buf_ptr EXCEPT ![t] = buf_base[t]]

\* memtrace without data->buf_ptr = data->buf_base
memtrace_no_reset(t) ==
    LET n == RefDiff(buf_ptr[t], buf_base[t])
    IN /\ log' = [log EXCEPT ![t] = @ \o <<FormatHeader>> \o DumpRefs(buf[t], 0, n)]
       /\ buf' = [buf EXCEPT ![t] = [i \in Slots |-> ZeroRef]]
       /\ data_num_refs' = [data_num_refs EXCEPT ![t] = @ + n]
       /\ UNCHANGED buf_ptr

\* memtrace without the memset
memtrace_no_memset(t) ==
    LET n == RefDiff(buf_ptr[t], buf_base[t])
    IN /\ log' = [log EXCEPT ![t] = @ \o <<FormatHeader>> \o DumpRefs(buf[t], 0, n)]
       /\ UNCHANGED buf
       /\ data_num_refs' = [data_num_refs EXCEPT ![t] = @ + n]
       /\ buf_ptr' = [buf_ptr EXCEPT ![t] = buf_base[t]]

\* memtrace without data->num_refs += num_refs
memtrace_no_count(t) ==
    LET n == RefDiff(buf_ptr[t], buf_base[t])
    IN /\ log' = [log EXCEPT ![t] = @ \o <<FormatHeader>> \o DumpRefs(buf[t], 0, n)]
       /\ buf' = [buf EXCEPT ![t] = [i \in Slots |-> ZeroRef]]
       /\ data_num_refs' = data_num_refs
       /\ buf_ptr' = [buf_ptr EXCEPT ![t] = buf_base[t]]

\* memtrace(drcontext): dump the buffer to the log, clear it, count, reset
memtrace(t) ==
    LET n == RefDiff(buf_ptr[t], buf_base[t])
    IN /\ log' = [log EXCEPT ![t] = @ \o <<FormatHeader>> \o DumpRefs(buf[t], 0, n)]
       /\ buf' = [buf EXCEPT ![t] = [i \in Slots |-> ZeroRef]]
       /\ data_num_refs' = [data_num_refs EXCEPT ![t] = @ + n]
       /\ buf_ptr' = [buf_ptr EXCEPT ![t] = buf_base[t]]

-----------------------------------------------------------------------------
(* The session *)

Init ==
    /\ spc = "start"
    /\ mutex = [state |-> "none", owner |-> 0]
    /\ code_cache = "none"
    /\ num_refs = 0
    /\ reported = NoVal
    /\ tpc = [t \in Threads |-> "uninit"]
    /\ data_alloc = [t \in Threads |-> "none"]
    /\ buf_alloc = [t \in Threads |-> "none"]
    /\ buf_base = [t \in Threads |-> NULL]
    /\ buf_ptr = [t \in Threads |-> NULL]
    /\ buf_end = [t \in Threads |-> 0]
    /\ buf = [t \in Threads |-> [i \in Slots |-> Garbage]]
    /\ data_num_refs = [t \in Threads |-> 0]
    /\ log = [t \in Threads |-> <<>>]
    /\ log_open = [t \in Threads |-> "none"]
    /\ tmp = [t \in Threads |-> 0]
    /\ cur = [t \in Threads |-> 0]
    /\ opi = [t \in Threads |-> 0]
    /\ ninstr = [t \in Threads |-> 0]
    /\ executed = [t \in Threads |-> <<>>]
    /\ nflush_auto = [t \in Threads |-> 0]
    /\ nflush_exit = [t \in Threads |-> 0]
    /\ merged = [t \in Threads |-> NoVal]
    /\ exit_steps = [t \in Threads |-> <<>>]
    /\ xbx = [t \in Threads |-> AppXBX(t)]
    /\ xcx = [t \in Threads |-> AppXCX(t)]
    /\ slot2 = [t \in Threads |-> 0]
    /\ slot3 = [t \in Threads |-> 0]
    /\ lost = [t \in Threads |-> 0]
    /\ failure_reports = 0
    /\ reserved = {}
    /\ dtest = [pc |-> "idle", subtest |-> 0, bb |-> <<>>, reg |-> 0, res |-> "none",
                nblocks |-> 0]
    /\ dcall = [op |-> "none", allowed |-> {}, arg |-> 0, before |-> {}, res |-> "none",
                reg |-> 0, out |-> 0]
    /\ cbr_tpc = [t \in Threads |-> "uninit"]
    /\ cbr_tls = [t \in Threads |-> NULL]
    /\ cbr_files = <<>>
    /\ cbr_cache = <<>>
    /\ cbr_taken = [t \in Threads |-> <<>>]

session_vars == <<spc, mutex, code_cache, num_refs, reported>>
data_vars == <<data_alloc, buf_alloc, buf_base, buf_ptr, buf_end, buf,
               data_num_refs, log, log_open>>
instr_vars == <<cur, opi, ninstr, executed>>
hist_vars == <<nflush_auto, nflush_exit, merged, exit_steps>>
reg_vars == <<xbx, xcx, slot2, slot3>>
fault_vars == <<lost, failure_reports>>
memtrace_vars == <<session_vars, tpc, data_vars, tmp, instr_vars, hist_vars,
                   reg_vars, fault_vars>>
drreg_vars == <<reserved, dtest, dcall>>
cbr_vars == <<cbr_tpc, cbr_tls, cbr_files, cbr_cache, cbr_taken>>
\* the state of the other two clients
client_vars == <<drreg_vars, cbr_vars>>

\* dr_client_main with a code_cache_init that leaves the page writable
dr_client_main_no_protect ==
    /\ spc = "start"
    /\ mutex' = [state |-> "live", owner |-> 0]
    /\ code_cache' = "rwx"
    /\ spc' = "running"
    /\ UNCHANGED <<num_refs, reported, tpc, tmp>>
    /\ UNCHANGED <<data_vars, instr_vars, hist_vars>>
    /\ UNCHANGED <<reg_vars, fault_vars, client_vars>>

\* dr_client_main: dr_mutex_create, the registrations, code_cache_init (the
\* page is allocated, the lean procedure encoded into it, the page made +rx)
dr_client_main ==
    /\ spc = "start"
    /\ mutex' = [state |-> "live", owner |-> 0]
    /\ code_cache' = "rx"
    /\ spc' = "running"
    /\ UNCHANGED <<num_refs, reported, tpc, tmp>>
    /\ UNCHANGED <<data_vars, instr_vars, hist_vars>>
    /\ UNCHANGED <<reg_vars, fault_vars, client_vars>>


\* event_exit called while threads still run
AllThreadsExited_unchecked == TRUE

\* event_exit runs once every thread that started has run event_thread_exit:
\* the host calls the thread exit events before the process exit event.
AllThreadsExited == \A t \in Threads : tpc[t] \in {"uninit", "closed"}

\* event_exit, SHOW_RESULTS: the report reads num_refs (no lock is taken)
event_exit_report ==
    /\ spc = "running"
    /\ AllThreadsExited
    /\ reported' = num_refs
    /\ spc' = "exit_code_cache"
    /\ UNCHANGED <<mutex, code_cache, num_refs, tpc, tmp>>
    /\ UNCHANGED <<data_vars, instr_vars, hist_vars>>
    /\ UNCHANGED <<reg_vars, fault_vars, client_vars>>

\* event_exit: code_cache_exit()
code_cache_exit ==
    /\ spc = "exit_code_cache"
    /\ code_cache' = "freed"
    /\ spc' = "exit_mutex"
    /\ UNCHANGED <<mutex, num_refs, reported, tpc, tmp>>
    /\ UNCHANGED <<data_vars, instr_vars, hist_vars>>
    /\ UNCHANGED <<reg_vars, fault_vars, client_vars>>

\* event_exit: drmgr_unregister_tls_field, dr_mutex_destroy, drutil_exit, drmgr_exit
event_exit_destroy ==
    /\ spc = "exit_mutex"
    /\ mutex' = [state |-> "destroyed", owner |-> mutex.owner]
    /\ spc' = "ended"
    /\ UNCHANGED <<code_cache, num_refs, reported, tpc, tmp>>
    /\ UNCHANGED <<data_vars, instr_vars, hist_vars>>
    /\ UNCHANGED <<reg_vars, fault_vars, client_vars>>

-----------------------------------------------------------------------------
(* A thread *)

\* buf_end holding the end of the buffer itself, not its negation
event_thread_init_end_ptr(t) ==
    /\ spc = "running"
    /\ tpc[t] = "uninit"
    /\ data_alloc' = [data_alloc EXCEPT ![t] = "live"]
    /\ buf_alloc' = [buf_alloc EXCEPT ![t] = "live"]
    /\ buf_base' = [buf_base EXCEPT ![t] = BufAddr(t)]
    /\ buf_ptr' = [buf_ptr EXCEPT ![t] = BufAddr(t)]
    /\ buf_end' = [buf_end EXCEPT ![t] = (BufAddr(t) + MEM_BUF_SIZE) % PtrMod]
    /\ data_num_refs' = [data_num_refs EXCEPT ![t] = 0]
    /\ log_open' = [log_open EXCEPT ![t] = "open"]
    /\ tpc' = [tpc EXCEPT ![t] = "active"]
    /\ UNCHANGED <<session_vars, buf, log, tmp>>
    /\ UNCHANGED <<instr_vars, hist_vars>>
    /\ UNCHANGED <<reg_vars, fault_vars, client_vars>>

event_thread_init(t) ==
    /\ spc = "running"
    /\ tpc[t] = "uninit"
    /\ data_alloc' = [data_alloc EXCEPT ![t] = "live"]
    /\ buf_alloc' = [buf_alloc EXCEPT ![t] = "live"]
    /\ buf_base' = [buf_base EXCEPT ![t] = BufAddr(t)]
    /\ buf_ptr' = [buf_ptr EXCEPT ![t] = BufAddr(t)]
    /\ buf_end' = [buf_end EXCEPT ![t] = (-(BufAddr(t) + MEM_BUF_SIZE)) % PtrMod]
    /\ data_num_refs' = [data_num_refs EXCEPT ![t] = 0]
    /\ log_open' = [log_open EXCEPT ![t] = "open"]
    /\ tpc' = [tpc EXCEPT ![t] = "active"]
    /\ UNCHANGED <<session_vars, buf, log, tmp>>
    /\ UNCHANGED <<instr_vars, hist_vars>>
    /\ UNCHANGED <<reg_vars, fault_vars, client_vars>>

\* The thread reaches instruction i of the application: the code injected
\* before it by event_bb_insert runs first.
start_instr(t, i) ==
    /\ spc = "running"
    /\ tpc[t] = "active"
    /\ SumTo(ninstr, NumThreads) < MaxInstrs
    /\ ninstr' = [ninstr EXCEPT ![t] = @ + 1]
    /\ cur' = [cur EXCEPT ![t] = i]
    /\ IF event_bb_insert(Instrs[i]) = <<>>
       THEN /\ tpc' = [tpc EXCEPT ![t] = "app"]
            /\ opi' = [opi EXCEPT ![t] = 0]
       ELSE /\ tpc' = [tpc EXCEPT ![t] = "fast"]
            /\ opi' = [opi EXCEPT ![t] = 1]
    /\ UNCHANGED <<session_vars, data_vars, tmp, executed, hist_vars>>
    /\ UNCHANGED <<reg_vars, fault_vars, client_vars>>

\* buf_ptr++ of the injected code: lea reg2 <- [reg2 + sizeof(mem_ref_t)]
AdvancePtr(p) == (p + RecordSize) % PtrMod
\* the test firing one record before the end
BufferFull_early(p, e) == (e + p + RecordSize) % PtrMod = 0

\* the test firing one record after the end
BufferFull_late(p, e) == (e + p - RecordSize) % PtrMod = 0
\* the branch taken on a nonzero sum instead
BufferFull_inverted(p, e) == (e + p) % PtrMod # 0

\* lea reg2 <- [reg1 + reg2] with reg1 = data->buf_end; jecxz takes the branch on 0
BufferFull(p, e) == (e + p) % PtrMod = 0

\* The injected sequences of the program: sequence k before instruction i.
Sites == {s \in (1..Len(Instrs)) \X (1..4) : s[2] <= Len(event_bb_insert(Instrs[s[1]]))}
\* Where the restore label of a sequence lies in the code the host emits.
LabelAddr(i, k) == 2048 + 16 * i + k
\* the address dr_nonheap_alloc returned, kept in the global code_cache
CodeCacheAddr == 3 * 1024
\* opnd_create_pc(code_cache): the target of jmp code_cache in sequence k of
\* instruction i
code_cache_pc(i, k) == CodeCacheAddr

\* every sequence handing over the restore label of the instruction's first one
restore_opnd_first(i, k) == LabelAddr(i, 1)

\* opnd_create_instr(restore): the label of the sequence being inserted
restore_opnd(i, k) == LabelAddr(i, k)

\* One injected sequence, from the register saves to the jecxz / jmp restore:
\* save XBX and XCX, fill the mem_ref_t at buf_ptr, advance and store buf_ptr,
\* load buf_end into reg1 and add it to the new buf_ptr in reg2.
fast_path(t) ==
    /\ tpc[t] = "fast"
    /\ LET site == event_bb_insert(Instrs[cur[t]])[opi[t]]
           slot == RefDiff(buf_ptr[t], buf_base[t])
           next == AdvancePtr(buf_ptr[t])
       IN /\ buf' = [buf EXCEPT ![t] = [i \in Slots |-> IF i = slot THEN site ELSE @[i]]]
          /\ buf_ptr' = [buf_ptr EXCEPT ![t] = next]
          /\ tpc' = [tpc EXCEPT ![t] = IF BufferFull(next, buf_end[t])
                                       THEN "call" ELSE "restore"]
          /\ slot2' = [slot2 EXCEPT ![t] = xbx[t]]
          /\ slot3' = [slot3 EXCEPT ![t] = xcx[t]]
          /\ xbx' = [xbx EXCEPT ![t] = buf_end[t]]
          /\ xcx' = [xcx EXCEPT ![t] = (buf_end[t] + next) % PtrMod]
    /\ UNCHANGED <<session_vars, data_alloc, buf_alloc, buf_base, buf_end,
                   data_num_refs, log, log_open, tmp>>
    /\ UNCHANGED <<instr_vars, hist_vars, fault_vars, client_vars>>

\* call: mov restore -> XCX; jmp code_cache
divert(t) ==
    /\ tpc[t] = "call"
    /\ code_cache = "rx"
    /\ xcx' = [xcx EXCEPT ![t] = restore_opnd(cur[t], opi[t])]
    /\ tpc' = [tpc EXCEPT ![t] = IF code_cache_pc(cur[t], opi[t]) = CodeCacheAddr
                                 THEN "code_cache" ELSE "crashed"]
    /\ UNCHANGED <<session_vars, data_vars, tmp, instr_vars, hist_vars>>
    /\ UNCHANGED <<xbx, slot2, slot3, fault_vars, client_vars>>

\* jmp *XCX: the thread goes on at the restore label whose address XCX holds,
\* and is lost when XCX holds no such address.
jmp_ind(t) ==
    IF \E s \in Sites : LabelAddr(s[1], s[2]) = xcx[t]
    THEN LET s == CHOOSE s \in Sites : LabelAddr(s[1], s[2]) = xcx[t]
         IN /\ cur' = [cur EXCEPT ![t] = s[1]]
            /\ opi' = [opi EXCEPT ![t] = s[2]]
            /\ tpc' = [tpc EXCEPT ![t] = "restore"]
    ELSE /\ tpc' = [tpc EXCEPT ![t] = "crashed"]
         /\ UNCHANGED <<cur, opi>>

\* the lean procedure with a memtrace that also counts into the global num_refs
clean_call_global_count(t) ==
    /\ tpc[t] = "code_cache"
    /\ memtrace(t)
    /\ num_refs' = num_refs + Pending(t)
    /\ nflush_auto' = [nflush_auto EXCEPT ![t] = @ + 1]
    /\ jmp_ind(t)
    /\ UNCHANGED <<spc, mutex, code_cache, reported, data_alloc, buf_alloc, buf_base,
                   buf_end, log_open, tmp, ninstr, executed, nflush_exit, merged,
                   exit_steps>>
    /\ UNCHANGED <<reg_vars, fault_vars, client_vars>>

\* the lean procedure draining one per_thread_t shared by all threads
clean_call_shared(t) ==
    /\ tpc[t] = "code_cache"
    /\ memtrace(1)
    /\ nflush_auto' = [nflush_auto EXCEPT ![t] = @ + 1]
    /\ jmp_ind(t)
    /\ UNCHANGED <<session_vars, data_alloc, buf_alloc, buf_base, buf_end,
                   log_open, tmp, ninstr, executed, nflush_exit, merged, exit_steps>>
    /\ UNCHANGED <<reg_vars, fault_vars, client_vars>>

\* The lean procedure: clean call of clean_call(), which calls memtrace for the
\* current thread and keeps the registers; jmp *XCX.
clean_call(t) ==
    /\ tpc[t] = "code_cache"
    /\ memtrace(t)
    /\ nflush_auto' = [nflush_auto EXCEPT ![t] = @ + 1]
    /\ jmp_ind(t)
    /\ UNCHANGED <<session_vars, data_alloc, buf_alloc, buf_base, buf_end,
                   log_open, tmp, ninstr, executed, nflush_exit, merged, exit_steps>>
    /\ UNCHANGED <<reg_vars, fault_vars, client_vars>>

\* the restore label followed by dr_restore_reg of reg1 alone
restore_one_reg(t) ==
    /\ tpc[t] = "restore"
    /\ IF opi[t] < Len(event_bb_insert(Instrs[cur[t]]))
       THEN /\ opi' = [opi EXCEPT ![t] = @ + 1]
            /\ tpc' = [tpc EXCEPT ![t] = "fast"]
       ELSE /\ opi' = [opi EXCEPT ![t] = 0]
            /\ tpc' = [tpc EXCEPT ![t] = "app"]
    /\ xbx' = [xbx EXCEPT ![t] = slot2[t]]
    /\ UNCHANGED <<session_vars, data_vars, tmp, cur, ninstr, executed, hist_vars>>
    /\ UNCHANGED <<xcx, slot2, slot3, fault_vars, client_vars>>

\* restore: dr_restore_reg of both registers; the next sequence or the instruction follows
restore(t) ==
    /\ tpc[t] = "restore"
    /\ IF opi[t] < Len(event_bb_insert(Instrs[cur[t]]))
       THEN /\ opi' = [opi EXCEPT ![t] = @ + 1]
            /\ tpc' = [tpc EXCEPT ![t] = "fast"]
       ELSE /\ opi' = [opi EXCEPT ![t] = 0]
            /\ tpc' = [tpc EXCEPT ![t] = "app"]
    /\ xbx' = [xbx EXCEPT ![t] = slot2[t]]
    /\ xcx' = [xcx EXCEPT ![t] = slot3[t]]
    /\ UNCHANGED <<session_vars, data_vars, tmp, cur, ninstr, executed, hist_vars>>
    /\ UNCHANGED <<slot2, slot3, fault_vars, client_vars>>

\* The application instruction itself executes and performs its accesses.
exec_instr(t) ==
    /\ tpc[t] = "app"
    /\ executed' = [executed EXCEPT ![t] = @ \o Accesses(Instrs[cur[t]])]
    /\ cur' = [cur EXCEPT ![t] = 0]
    /\ tpc' = [tpc EXCEPT ![t] = "active"]
    /\ UNCHANGED <<session_vars, data_vars, tmp, opi, ninstr, hist_vars>>
    /\ UNCHANGED <<reg_vars, fault_vars, client_vars>>

-----------------------------------------------------------------------------
(* event_thread_exit, one step per statement *)

ExitOrder == <<"memtrace", "lock", "add", "unlock", "close", "free_buf", "free_data">>
Did(t, step) == exit_steps' = [exit_steps EXCEPT ![t] = Append(@, step)]

\* event_thread_exit without its call of memtrace
exit_memtrace_skip(t) ==
    /\ tpc[t] = "active"
    /\ tpc' = [tpc EXCEPT ![t] = "exit_lock"]
    /\ UNCHANGED <<session_vars, data_vars, tmp, instr_vars, hist_vars>>
    /\ UNCHANGED <<reg_vars, fault_vars, client_vars>>

\* memtrace(drcontext). The thread exit event reaches a thread between two
\* application instructions, not inside the code injected before one.
exit_memtrace(t) ==
    /\ tpc[t] = "active"
    /\ memtrace(t)
    /\ nflush_exit' = [nflush_exit EXCEPT ![t] = @ + 1]
    /\ Did(t, "memtrace")
    /\ tpc' = [tpc EXCEPT ![t] = "exit_lock"]
    /\ UNCHANGED <<session_vars, data_alloc, buf_alloc, buf_base, buf_end,
                   log_open, tmp, instr_vars, nflush_auto, merged>>
    /\ UNCHANGED <<reg_vars, fault_vars, client_vars>>

\* a lock that does not exclude
MayLock_always(t) == mutex.state = "live"

\* dr_mutex_lock(mutex) returns once the mutex is free
MayLock(t) == mutex.state = "live" /\ mutex.owner = 0

\* going on without waiting for the mutex
exit_lock_no_wait(t) ==
    /\ tpc[t] = "exit_lock"
    /\ mutex' = [mutex EXCEPT !.owner = t]
    /\ Did(t, "lock")
    /\ tpc' = [tpc EXCEPT ![t] = "exit_load"]
    /\ UNCHANGED <<spc, code_cache, num_refs, reported, data_vars, tmp, instr_vars,
                   nflush_auto, nflush_exit, merged>>
    /\ UNCHANGED <<reg_vars, fault_vars, client_vars>>

exit_lock(t) ==
    /\ tpc[t] = "exit_lock"
    /\ MayLock(t)
    /\ mutex' = [mutex EXCEPT !.owner = t]
    /\ Did(t, "lock")
    /\ tpc' = [tpc EXCEPT ![t] = "exit_load"]
    /\ UNCHANGED <<spc, code_cache, num_refs, reported, data_vars, tmp, instr_vars,
                   nflush_auto, nflush_exit, merged>>
    /\ UNCHANGED <<reg_vars, fault_vars, client_vars>>

\* num_refs += data->num_refs: the load of num_refs
exit_load(t) ==
    /\ tpc[t] = "exit_load"
    /\ tmp' = [tmp EXCEPT ![t] = num_refs]
    /\ tpc' = [tpc EXCEPT ![t] = "exit_store"]
    /\ UNCHANGED <<session_vars, data_vars, instr_vars, hist_vars>>
    /\ UNCHANGED <<reg_vars, fault_vars, client_vars>>

\* num_refs += data->num_refs: the add and the store
exit_store(t) ==
    /\ tpc[t] = "exit_store"
    /\ num_refs' = tmp[t] + data_num_refs[t]
    /\ merged' = [merged EXCEPT ![t] = data_num_refs[t]]
    /\ Did(t, "add")
    /\ tpc' = [tpc EXCEPT ![t] = "exit_unlock"]
    /\ UNCHANGED <<spc, mutex, code_cache, reported, data_vars, tmp, instr_vars,
                   nflush_auto, nflush_exit>>
    /\ UNCHANGED <<reg_vars, fault_vars, client_vars>>

\* event_thread_exit going on without dr_mutex_unlock
exit_unlock_skipped(t) ==
    /\ tpc[t] = "exit_unlock"
    /\ mutex' = mutex
    /\ Did(t, "unlock")
    /\ tpc' = [tpc EXCEPT ![t] = "exit_close"]
    /\ UNCHANGED <<spc, code_cache, num_refs, reported, data_vars, tmp, instr_vars,
                   nflush_auto, nflush_exit, merged>>
    /\ UNCHANGED <<reg_vars, fault_vars, client_vars>>

\* dr_mutex_unlock(mutex)
exit_unlock(t) ==
    /\ tpc[t] = "exit_unlock"
    /\ mutex' = [mutex EXCEPT !.owner = 0]
    /\ Did(t, "unlock")
    /\ tpc' = [tpc EXCEPT ![t] = "exit_close"]
    /\ UNCHANGED <<spc, code_cache, num_refs, reported, data_vars, tmp, instr_vars,
                   nflush_auto, nflush_exit, merged>>
    /\ UNCHANGED <<reg_vars, fault_vars, client_vars>>

\* log_file_close(data->log)
exit_close(t) ==
    /\ tpc[t] = "exit_close"
    /\ log_open' = [log_open EXCEPT ![t] = "closed"]
    /\ Did(t, "close")
    /\ tpc' = [tpc EXCEPT ![t] = "exit_free_buf"]
    /\ UNCHANGED <<session_vars, data_alloc, buf_alloc, buf_base, buf_ptr, buf_end,
                   buf, data_num_refs, log, tmp, instr_vars,
                   nflush_auto, nflush_exit, merged>>
    /\ UNCHANGED <<reg_vars, fault_vars, client_vars>>

\* dr_thread_free(drcontext, data->buf_base, MEM_BUF_SIZE)
exit_free_buf(t) ==
    /\ tpc[t] = "exit_free_buf"
    /\ buf_alloc' = [buf_alloc EXCEPT ![t] = "freed"]
    /\ Did(t, "free_buf")
    /\ tpc' = [tpc EXCEPT ![t] = "exit_free_data"]
    /\ UNCHANGED <<session_vars, data_alloc, buf_base, buf_ptr, buf_end,
                   buf, data_num_refs, log, log_open, tmp, instr_vars,
                   nflush_auto, nflush_exit, merged>>
    /\ UNCHANGED <<reg_vars, fault_vars, client_vars>>

\* dr_thread_free(drcontext, data, sizeof(per_thread_t))
exit_free_data(t) ==
    /\ tpc[t] = "exit_free_data"
    /\ data_alloc' = [data_alloc EXCEPT ![t] = "freed"]
    /\ Did(t, "free_data")
    /\ tpc' = [tpc EXCEPT ![t] = "closed"]
    /\ UNCHANGED <<session_vars, buf_alloc, buf_base, buf_ptr, buf_end,
                   buf, data_num_refs, log, log_open, tmp, instr_vars,
                   nflush_auto, nflush_exit, merged>>
    /\ UNCHANGED <<reg_vars, fault_vars, client_vars>>

-----------------------------------------------------------------------------

Next ==
    \/ dr_client_main
    \/ event_exit_report
    \/ code_cache_exit
    \/ event_exit_destroy
    \/ \E t \in Threads : event_thread_init(t)
    \/ \E t \in Threads : \E i \in 1..Len(Instrs) : start_instr(t, i)
    \/ \E t \in Threads : fast_path(t)
    \/ \E t \in Threads : divert(t)
    \/ \E t \in Threads : clean_call(t)
    \/ \E t \in Threads : restore(t)
    \/ \E t \in Threads : exec_instr(t)
    \/ \E t \in Threads : exit_memtrace(t)
    \/ \E t \in Threads : exit_lock(t)
    \/ \E t \in Threads : exit_load(t)
    \/ \E t \in Threads : exit_store(t)
    \/ \E t \in Threads : exit_unlock(t)
    \/ \E t \in Threads : exit_close(t)
    \/ \E t \in Threads : exit_free_buf(t)
    \/ \E t \in Threads : exit_free_data(t)

Spec == Init /\ [][Next]_vars

\* What a thread does once it is in the lean procedure or past the flush of
\* event_thread_exit: none of it waits for anything but the mutex.
Progress(t) ==
    \/ clean_call(t)
    \/ exit_lock(t)
    \/ exit_load(t)
    \/ exit_store(t)
    \/ exit_unlock(t)
    \/ exit_close(t)
    \/ exit_free_buf(t)
    \/ exit_free_data(t)

\* The program on a host that schedules every thread that can run and hands
\* a free mutex to a thread waiting in dr_mutex_lock.
SpecFair == Spec /\ \A t \in Threads : WF_vars(Progress(t))

-----------------------------------------------------------------------------
(* Failures of the host's services *)

\* memtrace when the log cannot be written: every dr_fprintf of the call
\* fails and nothing reaches the file. The client discards what dr_fprintf
\* returns, so the rest of memtrace runs as ever and nothing is reported.
memtrace_write_fails(t) ==
    LET n == RefDiff(buf_ptr[t], buf_base[t])
    IN /\ log' = log
       /\ buf' = [buf EXCEPT ![t] = [i \in Slots |-> ZeroRef]]
       /\ data_num_refs' = [data_num_refs EXCEPT ![t] = @ + n]
       /\ buf_ptr' = [buf_ptr EXCEPT ![t] = buf_base[t]]
       /\ lost' = [lost EXCEPT ![t] = @ + n]
       /\ failure_reports' = failure_reports

clean_call_write_fails(t) ==
    /\ tpc[t] = "code_cache"
    /\ memtrace_write_fails(t)
    /\ nflush_auto' = [nflush_auto EXCEPT ![t] = @ + 1]
    /\ jmp_ind(t)
    /\ UNCHANGED <<session_vars, data_alloc, buf_alloc, buf_base, buf_end,
                   log_open, tmp, ninstr, executed, nflush_exit, merged, exit_steps>>
    /\ UNCHANGED <<reg_vars, client_vars>>

exit_memtrace_write_fails(t) ==
    /\ tpc[t] = "active"
    /\ memtrace_write_fails(t)
    /\ nflush_exit' = [nflush_exit EXCEPT ![t] = @ + 1]
    /\ Did(t, "memtrace")
    /\ tpc' = [tpc EXCEPT ![t] = "exit_lock"]
    /\ UNCHANGED <<session_vars, data_alloc, buf_alloc, buf_base, buf_end,
                   log_open, tmp, instr_vars, nflush_auto, merged>>
    /\ UNCHANGED <<reg_vars, client_vars>>

\* the host handing the client a null pointer and letting the thread run
OutOfMemory_returns_null(t) ==
    /\ tpc' = [tpc EXCEPT ![t] = "active"]
    /\ UNCHANGED spc

\* The host ends the process with an unrecoverable error: no thread runs on.
Abort ==
    /\ spc' = "fatal"
    /\ tpc' = [u \in Threads |-> "dead"]

\* The host cannot allocate for thread t: it ends the process and returns to
\* no client code.
OutOfMemory(t) == Abort

\* dr_client_main: dr_nonheap_alloc of code_cache_init cannot allocate
code_cache_init_out_of_memory ==
    /\ spc = "start"
    /\ mutex' = [state |-> "live", owner |-> 0]
    /\ Abort
    /\ UNCHANGED <<code_cache, num_refs, reported, tmp>>
    /\ UNCHANGED <<data_vars, instr_vars, hist_vars, reg_vars, fault_vars, client_vars>>

\* event_thread_init: dr_thread_alloc of the per_thread_t or of the buffer
\* cannot allocate
event_thread_init_out_of_memory(t) ==
    /\ spc = "running"
    /\ tpc[t] = "uninit"
    /\ OutOfMemory(t)
    /\ UNCHANGED <<mutex, code_cache, num_refs, reported, tmp>>
    /\ UNCHANGED <<data_vars, instr_vars, hist_vars, reg_vars, fault_vars, client_vars>>

\* The program with a log whose writes may fail.
NextWriteFails ==
    \/ Next
    \/ \E t \in Threads :
          \/ clean_call_write_fails(t)
          \/ exit_memtrace_write_fails(t)

SpecWriteFails == Init /\ [][NextWriteFails]_vars

\* The program with a host that may run out of memory.
NextOutOfMemory ==
    \/ Next
    \/ code_cache_init_out_of_memory
    \/ \E t \in Threads : event_thread_init_out_of_memory(t)

SpecOutOfMemory == Init /\ [][NextOutOfMemory]_vars

-----------------------------------------------------------------------------
(* The injected sequence, instruction by instruction *)

\* the sequence with the advance of buf_ptr moved before the stores
FastOrder_advance_first ==
    <<"fast", "fp_load_ptr", "fp_advance", "fp_store_write", "fp_store_addr",
      "fp_store_size", "fp_store_pc", "fp_store_ptr", "fp_test">>

\* The instructions instrument_mem inserts, in the order it inserts them
\* (each goes before the application instruction, after the earlier ones);
\* "fast" is the start: the register saves and drutil_insert_get_mem_addr.
FastOrder ==
    <<"fast", "fp_load_ptr", "fp_store_write", "fp_store_addr", "fp_store_size",
      "fp_store_pc", "fp_advance", "fp_store_ptr", "fp_test">>
FastIndex(pc) == CHOOSE i \in 1..Len(FastOrder) : FastOrder[i] = pc
\* the thread goes on to the next instruction of the sequence
FastNext(t) == tpc' = [tpc EXCEPT ![t] = FastOrder[FastIndex(tpc[t]) + 1]]
\* the operand the sequence is for
Site(t) == event_bb_insert(Instrs[cur[t]])[opi[t]]
\* the address dr_thread_alloc returned for the thread's per_thread_t
DataAddr(t) == BufAddr(t) + MEM_BUF_SIZE
\* a store through reg2 into one field of the mem_ref_t it points to
StoreField(t, r) ==
    /\ buf' = [buf EXCEPT ![t] =
                  [i \in Slots |-> IF i = RefDiff(xcx[t], buf_base[t]) THEN r ELSE @[i]]]
    /\ UNCHANGED <<session_vars, data_alloc, buf_alloc, buf_base, buf_ptr, buf_end,
                   data_num_refs, log, log_open, tmp>>
    /\ UNCHANGED <<instr_vars, hist_vars, reg_vars, fault_vars, client_vars>>
Target(t) == buf[t][RefDiff(xcx[t], buf_base[t])]

\* dr_save_reg of reg1 and reg2; drutil_insert_get_mem_addr into reg1
fp_get_mem_addr(t) ==
    /\ tpc[t] = "fast"
    /\ FastNext(t)
    /\ slot2' = [slot2 EXCEPT ![t] = xbx[t]]
    /\ slot3' = [slot3 EXCEPT ![t] = xcx[t]]
    /\ xbx' = [xbx EXCEPT ![t] = Site(t).addr]
    /\ UNCHANGED <<session_vars, data_vars, tmp, instr_vars, hist_vars, xcx, fault_vars, client_vars>>

\* read the TLS field into reg2; mov reg2 <- data->buf_ptr
fp_load_ptr(t) ==
    /\ tpc[t] = "fp_load_ptr"
    /\ FastNext(t)
    /\ xcx' = [xcx EXCEPT ![t] = buf_ptr[t]]
    /\ UNCHANGED <<session_vars, data_vars, tmp, instr_vars, hist_vars>>
    /\ UNCHANGED <<xbx, slot2, slot3, fault_vars, client_vars>>

\* mov [reg2 + offsetof(mem_ref_t, write)] <- write
fp_store_write(t) ==
    /\ tpc[t] = "fp_store_write"
    /\ FastNext(t)
    /\ StoreField(t, [Target(t) EXCEPT !.write = Site(t).write])

\* mov [reg2 + offsetof(mem_ref_t, addr)] <- reg1
fp_store_addr(t) ==
    /\ tpc[t] = "fp_store_addr"
    /\ FastNext(t)
    /\ StoreField(t, [Target(t) EXCEPT !.addr = xbx[t]])

\* mov [reg2 + offsetof(mem_ref_t, size)] <- drutil_opnd_mem_size_in_bytes(ref, where)
fp_store_size(t) ==
    /\ tpc[t] = "fp_store_size"
    /\ FastNext(t)
    /\ StoreField(t, [Target(t) EXCEPT !.size = Site(t).size])

\* instrlist_insert_mov_immed_ptrsz of pc to [reg2 + offsetof(mem_ref_t, pc)]
fp_store_pc(t) ==
    /\ tpc[t] = "fp_store_pc"
    /\ FastNext(t)
    /\ StoreField(t, [Target(t) EXCEPT !.pc = Site(t).pc])

\* lea reg2 <- [reg2 + sizeof(mem_ref_t)]
fp_advance(t) ==
    /\ tpc[t] = "fp_advance"
    /\ FastNext(t)
    /\ xcx' = [xcx EXCEPT ![t] = AdvancePtr(xcx[t])]
    /\ UNCHANGED <<session_vars, data_vars, tmp, instr_vars, hist_vars>>
    /\ UNCHANGED <<xbx, slot2, slot3, fault_vars, client_vars>>

\* read the TLS field into reg1; mov data->buf_ptr <- reg2
fp_store_ptr(t) ==
    /\ tpc[t] = "fp_store_ptr"
    /\ FastNext(t)
    /\ xbx' = [xbx EXCEPT ![t] = DataAddr(t)]
    /\ buf_ptr' = [buf_ptr EXCEPT ![t] = xcx[t]]
    /\ UNCHANGED <<session_vars, data_alloc, buf_alloc, buf_base, buf_end, buf,
                   data_num_refs, log, log_open, tmp>>
    /\ UNCHANGED <<instr_vars, hist_vars, xcx, slot2, slot3, fault_vars, client_vars>>

\* mov reg1 <- data->buf_end; lea reg2 <- [reg1 + reg2]; jecxz call; jmp restore
fp_test(t) ==
    /\ tpc[t] = "fp_test"
    /\ xbx' = [xbx EXCEPT ![t] = buf_end[t]]
    /\ xcx' = [xcx EXCEPT ![t] = (buf_end[t] + xcx[t]) % PtrMod]
    /\ tpc' = [tpc EXCEPT ![t] = IF BufferFull(xcx[t], buf_end[t])
                                 THEN "call" ELSE "restore"]
    /\ UNCHANGED <<session_vars, data_vars, tmp, instr_vars, hist_vars>>
    /\ UNCHANGED <<slot2, slot3, fault_vars, client_vars>>

\* The program with every instruction of the injected sequence a step.
NextSteps ==
    \/ dr_client_main
    \/ event_exit_report
    \/ code_cache_exit
    \/ event_exit_destroy
    \/ \E t \in Threads : event_thread_init(t)
    \/ \E t \in Threads : \E i \in 1..Len(Instrs) : start_instr(t, i)
    \/ \E t \in Threads : fp_get_mem_addr(t)
    \/ \E t \in Threads : fp_load_ptr(t)
    \/ \E t \in Threads : fp_store_write(t)
    \/ \E t \in Threads : fp_store_addr(t)
    \/ \E t \in Threads : fp_store_size(t)
    \/ \E t \in Threads : fp_store_pc(t)
    \/ \E t \in Threads : fp_advance(t)
    \/ \E t \in Threads : fp_store_ptr(t)
    \/ \E t \in Threads : fp_test(t)
    \/ \E t \in Threads : divert(t)
    \/ \E t \in Threads : clean_call(t)
    \/ \E t \in Threads : restore(t)
    \/ \E t \in Threads : exec_instr(t)
    \/ \E t \in Threads : exit_memtrace(t)
    \/ \E t \in Threads : exit_lock(t)
    \/ \E t \in Threads : exit_load(t)
    \/ \E t \in Threads : exit_store(t)
    \/ \E t \in Threads : exit_unlock(t)
    \/ \E t \in Threads : exit_close(t)
    \/ \E t \in Threads : exit_free_buf(t)
    \/ \E t \in Threads : exit_free_data(t)

SpecSteps == Init /\ [][NextSteps]_vars

-----------------------------------------------------------------------------
(* drreg and its test client *)

\* the general-purpose registers, fewer than the machine has
DR_NUM_GPR_REGS == 4
DR_REG_START_GPR == 1
GPRs == DR_REG_START_GPR..(DR_REG_START_GPR + DR_NUM_GPR_REGS - 1)
\* XDX, the third register, and XDI, the last one
TEST_REG == DR_REG_START_GPR + 2
DR_REG_XDI == DR_REG_START_GPR + DR_NUM_GPR_REGS - 1
DRREG_TEST_1_C == 1
\* the blocks the test client is given
MaxBlocks == 2

\* drvector_t allowed: an entry per register, TEST_REG's alone set. A
\* drvector is modelled by the set of the indices whose entry is not NULL.
AllowedTest == {i \in 0..(DR_NUM_GPR_REGS - 1) : i = TEST_REG - DR_REG_START_GPR}
\* the NULL vector: any register will do
AllowedAny == 0..(DR_NUM_GPR_REGS - 1)

\* drreg handing out a register that is reserved already
drreg_reserve_register_shared(resv, allowed, out) ==
    LET cand == {r \in GPRs : r - DR_REG_START_GPR \in allowed}
    IN IF cand = {}
       THEN {[res |-> "DRREG_ERROR_REG_CONFLICT", reg |-> out, reserved |-> resv]}
       ELSE {[res |-> "DRREG_SUCCESS", reg |-> r, reserved |-> resv \cup {r}] :
                 r \in cand}

\* drreg_reserve_register: one of the allowed registers that is not reserved,
\* which drreg picks; none left is a conflict and *reg is not written.
drreg_reserve_register(resv, allowed, out) ==
    LET cand == {r \in GPRs : r \notin resv /\ r - DR_REG_START_GPR \in allowed}
    IN IF cand = {}
       THEN {[res |-> "DRREG_ERROR_REG_CONFLICT", reg |-> out, reserved |-> resv]}
       ELSE {[res |-> "DRREG_SUCCESS", reg |-> r, reserved |-> resv \cup {r}] :
                 r \in cand}

\* drreg_unreserve_register
drreg_unreserve_register(resv, r) ==
    IF r \in resv
    THEN [res |-> "DRREG_SUCCESS", reserved |-> resv \ {r}]
    ELSE [res |-> "DRREG_ERROR_INVALID_PARAMETER", reserved |-> resv]

\* drreg_get_app_value: the application's value of a reserved register may be
\* dead and then there is none to restore
drreg_get_app_value(resv, app_reg, dst) ==
    IF app_reg \in resv THEN {"DRREG_SUCCESS", "DRREG_ERROR_NO_APP_VALUE"}
    ELSE {"DRREG_SUCCESS"}

\* the blocks: those of subtest 0, instrumented instruction by instruction,
\* and those of the cross-instruction subtests, which hold the label that
\* event_app_analysis inserts and end in the block's last instruction
DrregBlocks ==
    {[subtest |-> 0, bb |-> <<"app">>],
     [subtest |-> 0, bb |-> <<"app", "last">>],
     [subtest |-> DRREG_TEST_1_C, bb |-> <<"label", "last">>],
     [subtest |-> DRREG_TEST_1_C, bb |-> <<"app", "label", "app", "last">>]}

\* CHECK(x, msg): dr_abort() unless x
CHECK(x, next) == IF x THEN next ELSE "aborted"

\* drmgr takes up a block and calls event_app_instruction for its first
\* instruction
drreg_block(b) ==
    /\ dtest.pc = "idle"
    /\ dtest.nblocks < MaxBlocks
    /\ dtest' = [dtest EXCEPT !.pc = "entry", !.subtest = b.subtest, !.bb = b.bb,
                              !.nblocks = @ + 1]
    /\ UNCHANGED <<reserved, dcall, memtrace_vars, cbr_vars>>

\* drvector_init and the loop that clears the entries, which leaves reg at
\* DR_NUM_GPR_REGS; the branch on subtest and on the kind of instruction
event_app_instruction_entry ==
    /\ dtest.pc = "entry"
    /\ dtest' = [dtest EXCEPT
                    !.reg = DR_NUM_GPR_REGS,
                    !.pc = IF dtest.subtest = 0 THEN "reserve_default"
                           ELSE IF Head(dtest.bb) = "label" THEN "label_reserve"
                           ELSE IF Head(dtest.bb) = "last" THEN "last_unreserve"
                           ELSE "return"]
    /\ UNCHANGED <<reserved, dcall, memtrace_vars, cbr_vars>>

\* a call of drreg_reserve_register with the CHECK after it
Reserve(allowed, ok, next) ==
    /\ \E o \in drreg_reserve_register(reserved, allowed, dtest.reg) :
          /\ reserved' = o.reserved
          /\ dtest' = [dtest EXCEPT !.res = o.res, !.reg = o.reg,
                                    !.pc = CHECK(<<o.res, o.reg>> \in ok, next)]
          /\ dcall' = [op |-> "reserve", allowed |-> allowed, arg |-> 0,
                       before |-> reserved, res |-> o.res, reg |-> o.reg,
                       out |-> dtest.reg]
    /\ UNCHANGED <<memtrace_vars, cbr_vars>>

\* a call of drreg_unreserve_register with the CHECK after it
Unreserve(r, next) ==
    /\ LET o == drreg_unreserve_register(reserved, r)
       IN /\ reserved' = o.reserved
          /\ dtest' = [dtest EXCEPT !.res = o.res,
                                    !.pc = CHECK(o.res = "DRREG_SUCCESS", next)]
          /\ dcall' = [op |-> "unreserve", allowed |-> {}, arg |-> r,
                       before |-> reserved, res |-> o.res, reg |-> dtest.reg,
                       out |-> dtest.reg]
    /\ UNCHANGED <<memtrace_vars, cbr_vars>>

\* a call of drreg_get_app_value with the CHECK after it
GetAppValue(app_reg, ok, next) ==
    /\ \E res \in drreg_get_app_value(reserved, app_reg, dtest.reg) :
          /\ dtest' = [dtest EXCEPT !.res = res, !.pc = CHECK(res \in ok, next)]
          /\ dcall' = [op |-> "get_app_value", allowed |-> {}, arg |-> app_reg,
                       before |-> reserved, res |-> res, reg |-> dtest.reg,
                       out |-> dtest.reg]
    /\ UNCHANGED <<reserved, memtrace_vars, cbr_vars>>

\* the values a reg_id_t may hold
RegIds == 0..(DR_REG_START_GPR + DR_NUM_GPR_REGS)
\* res == DRREG_SUCCESS, whatever reg is
IsSuccess == {"DRREG_SUCCESS"} \X RegIds
\* "default reserve should always work"
reserve_default ==
    /\ dtest.pc = "reserve_default"
    /\ Reserve(AllowedAny, IsSuccess, "get_app_value")

AppValueOrDead == {"DRREG_SUCCESS", "DRREG_ERROR_NO_APP_VALUE"}
\* "restore app value could only fail on dead reg"; there is no stolen
\* register on x86
get_app_value ==
    /\ dtest.pc = "get_app_value"
    /\ GetAppValue(dtest.reg, AppValueOrDead, "get_random")

RandomOk ==
    {"DRREG_SUCCESS"} \cup
        (IF dtest.reg = DR_REG_XDI THEN {"DRREG_ERROR_NO_APP_VALUE"} ELSE {})
\* "get random reg app value should always work"
get_random ==
    /\ dtest.pc = "get_random"
    /\ GetAppValue(DR_REG_XDI, RandomOk, "unreserve_default")

\* "default unreserve should always work"
unreserve_default ==
    /\ dtest.pc = "unreserve_default"
    /\ Unreserve(dtest.reg, "reserve_allowed")

OnlyChoice == {<<"DRREG_SUCCESS", TEST_REG>>}
\* "only 1 choice"
reserve_allowed ==
    /\ dtest.pc = "reserve_allowed"
    /\ Reserve(AllowedTest, OnlyChoice, "reserve_again")

IsConflict == {"DRREG_ERROR_REG_CONFLICT"} \X RegIds
\* "still reserved"
reserve_again ==
    /\ dtest.pc = "reserve_again"
    /\ Reserve(AllowedTest, IsConflict, "unreserve_allowed")

\* "unreserve should work"
unreserve_allowed ==
    /\ dtest.pc = "unreserve_allowed"
    /\ Unreserve(dtest.reg, "return")

\* the label of a cross-instruction subtest: "reserve of test reg should work"
label_reserve ==
    /\ dtest.pc = "label_reserve"
    /\ Reserve(AllowedTest, IsSuccess, "return")

\* the last instruction of a cross-instruction subtest: the clean call of
\* check_const, then "unreserve should work"
last_unreserve ==
    /\ dtest.pc = "last_unreserve"
    /\ Unreserve(TEST_REG, "return")

\* drvector_delete and return; drmgr goes on to the next instruction of the
\* block or has done with the block
event_app_instruction_return ==
    /\ dtest.pc = "return"
    /\ dtest' = [dtest EXCEPT !.bb = Tail(@),
                              !.pc = IF Len(dtest.bb) > 1 THEN "entry" ELSE "idle"]
    /\ UNCHANGED <<reserved, dcall, memtrace_vars, cbr_vars>>

NextDrreg ==
    \/ \E b \in DrregBlocks : drreg_block(b)
    \/ event_app_instruction_entry
    \/ reserve_default
    \/ get_app_value
    \/ get_random
    \/ unreserve_default
    \/ reserve_allowed
    \/ reserve_again
    \/ unreserve_allowed
    \/ label_reserve
    \/ last_unreserve
    \/ event_app_instruction_return

SpecDrreg == Init /\ [][NextDrreg]_vars

-----------------------------------------------------------------------------
(* cbrtrace *)

\* the blocks of the application the threads may execute
MaxCbrBlocks == 2

\* the application's basic blocks: a block ends in its conditional branch if
\* it has one
Plain(pc) == [pc |-> pc, cbr |-> FALSE, targ |-> 0, fall |-> 0]
Cbr(pc, targ, fall) == [pc |-> pc, cbr |-> TRUE, targ |-> targ, fall |-> fall]
CbrBlocks ==
    {[tag |-> 100, instrs |-> <<Plain(100), Cbr(104, 200, 106)>>],
     [tag |-> 200, instrs |-> <<Cbr(200, 100, 202)>>],
     [tag |-> 300, instrs |-> <<Plain(300), Plain(302)>>]}

instr_is_cbr(ins) == ins.cbr
dr_fragment_app_pc(tag) == tag

\* event_basic_block putting the clean call before the block's first
\* instruction only
event_basic_block_first(b) ==
    [i \in 1..Len(b.instrs) |->
        [instr |-> b.instrs[i],
         hook |-> IF i = 1 /\ instr_is_cbr(b.instrs[i])
                  THEN dr_fragment_app_pc(b.tag) ELSE NoVal]]

\* event_basic_block: dr_insert_cbr_instrumentation_ex for every instruction
\* that is a conditional branch, with the block's address as user data
event_basic_block(b) ==
    [i \in 1..Len(b.instrs) |->
        [instr |-> b.instrs[i],
         hook |-> IF instr_is_cbr(b.instrs[i])
                  THEN dr_fragment_app_pc(b.tag) ELSE NoVal]]

\* the log line with the destination the wrong way round
at_cbr_swapped(inst_addr, targ_addr, fall_addr, taken, bb_addr) ==
    <<bb_addr, inst_addr, fall_addr, targ_addr,
      IF taken = 0 THEN targ_addr ELSE fall_addr>>

\* at_cbr: the line it prints
at_cbr(inst_addr, targ_addr, fall_addr, taken, bb_addr) ==
    <<bb_addr, inst_addr, fall_addr, targ_addr,
      IF taken = 0 THEN fall_addr ELSE targ_addr>>

\* the lines the clean calls of an instrumented block print when it is
\* executed and its branch goes the way of taken
RECURSIVE CleanCalls(_, _)
CleanCalls(code, taken) ==
    IF code = <<>> THEN <<>>
    ELSE LET c == Head(code)
         IN (IF c.hook # NoVal
             THEN <<at_cbr(c.instr.pc, c.instr.targ, c.instr.fall, taken, c.hook)>>
             ELSE <<>>) \o CleanCalls(Tail(code), taken)

\* the conditional branches of a block, as the application executes them
RECURSIVE Branches(_, _, _)
Branches(tag, instrs, taken) ==
    IF instrs = <<>> THEN <<>>
    ELSE (IF Head(instrs).cbr
          THEN <<[bb |-> tag, instr |-> Head(instrs), taken |-> taken]>>
          ELSE <<>>) \o Branches(tag, Tail(instrs), taken)

\* the descriptors in use, and the one log_file_open gets: the lowest free
\* above the standard three
OpenFds == {cbr_files[n].fd : n \in {n \in DOMAIN cbr_files : cbr_files[n].state = "open"}}
FreshFd == CHOOSE f \in 3..(3 + NumThreads) :
               f \notin OpenFds /\ \A g \in 3..(f - 1) : g \in OpenFds

\* dr_fprintf(log, ...): the line goes to the open file with that descriptor
dr_fprintf(files, fd, lines) ==
    [n \in DOMAIN files |->
        IF files[n].state = "open" /\ files[n].fd = fd
        THEN [files[n] EXCEPT !.lines = @ \o lines]
        ELSE files[n]]

\* event_thread_init: log_file_open of cbrtrace.<pid>.<tid>.log and
\* dr_set_tls_field
cbr_thread_init(t) ==
    /\ cbr_tpc[t] = "uninit"
    /\ cbr_files' = (t :> [fd |-> FreshFd, state |-> "open", lines |-> <<>>]) @@ cbr_files
    /\ cbr_tls' = [cbr_tls EXCEPT ![t] = FreshFd]
    /\ cbr_tpc' = [cbr_tpc EXCEPT ![t] = "running"]
    /\ UNCHANGED <<cbr_cache, cbr_taken, memtrace_vars, drreg_vars>>

\* a thread comes to a block that is not in the code cache: the host builds
\* it and calls event_basic_block
cbr_build(t, b) ==
    /\ cbr_tpc[t] = "running"
    /\ b.tag \notin DOMAIN cbr_cache
    /\ cbr_cache' = (b.tag :> event_basic_block(b)) @@ cbr_cache
    /\ UNCHANGED <<cbr_tpc, cbr_tls, cbr_files, cbr_taken, memtrace_vars, drreg_vars>>

\* a thread executes a block from the code cache; its branch, if it has one,
\* is taken or not
cbr_exec(t, b, taken) ==
    /\ cbr_tpc[t] = "running"
    /\ b.tag \in DOMAIN cbr_cache
    /\ SumTo([u \in Threads |-> Len(cbr_taken[u])], NumThreads) < MaxCbrBlocks
    /\ cbr_files' = dr_fprintf(cbr_files, cbr_tls[t], CleanCalls(cbr_cache[b.tag], taken))
    /\ cbr_taken' = [cbr_taken EXCEPT ![t] = @ \o Branches(b.tag, b.instrs, taken)]
    /\ UNCHANGED <<cbr_tpc, cbr_tls, cbr_cache, memtrace_vars, drreg_vars>>

\* event_thread_exit: log_file_close of the TLS field
cbr_thread_exit(t) ==
    /\ cbr_tpc[t] = "running"
    /\ cbr_files' = [n \in DOMAIN cbr_files |->
                        IF cbr_files[n].state = "open" /\ cbr_files[n].fd = cbr_tls[t]
                        THEN [cbr_files[n] EXCEPT !.state = "closed"]
                        ELSE cbr_files[n]]
    /\ cbr_tpc' = [cbr_tpc EXCEPT ![t] = "exited"]
    /\ UNCHANGED <<cbr_tls, cbr_cache, cbr_taken, memtrace_vars, drreg_vars>>

NextCbr ==
    \/ \E t \in Threads : cbr_thread_init(t)
    \/ \E t \in Threads, b \in CbrBlocks : cbr_build(t, b)
    \/ \E t \in Threads, b \in CbrBlocks, taken \in {0, 1} : cbr_exec(t, b, taken)
    \/ \E t \in Threads : cbr_thread_exit(t)

SpecCbr == Init /\ [][NextCbr]_vars

-----------------------------------------------------------------------------
(* Properties *)

ExitPcs == {"exit_lock", "exit_load", "exit_store", "exit_unlock", "exit_close",
            "exit_free_buf", "exit_free_data", "closed"}
MergePcs == {"exit_load", "exit_store", "exit_unlock"}
NumExecuted(t) == Len(executed[t])
ExecutedLens == [t \in Threads |-> Len(executed[t])]
\* every record the thread has appended so far: those dumped, then those pending
Appended(t) == LogRefs(t) \o PendingRefs(t)
\* memtrace is called for thread t in this step
Flushed(t) == nflush_auto'[t] + nflush_exit'[t] = nflush_auto[t] + nflush_exit[t] + 1

IsPrefix(a, b) == Len(a) <= Len(b) /\ SubSeq(b, 1, Len(a)) = a

\* the number of record lines after the last header line of a log
RECURSIVE LastBatch(_)
LastBatch(ls) ==
    IF ls = <<>> \/ ~IsRefLine(ls[Len(ls)]) THEN 0
    ELSE 1 + LastBatch(SubSeq(ls, 1, Len(ls) - 1))

\* C1: once a thread's event_thread_exit has made its final flush, the record
\* lines of its log, read back as (direction, size, address, origin_pc), are
\* the accesses the thread executed, in program order: none lost, duplicated
\* or reordered.
C1_RoundTrip ==
    \A t \in Threads : tpc[t] \in ExitPcs => LogRefs(t) = executed[t]

\* a closed thread whose log holds a full buffer dumped through the code cache
\* and a partial one dumped at exit
C1_Witness ==
    \E t \in Threads :
        /\ tpc[t] = "closed"
        /\ nflush_auto[t] >= 1
        /\ NumExecuted(t) % MAX_NUM_MEM_REFS # 0

\* C2 as stated: the thread is flushed floor(n/c) times while it runs, and once
\* more at teardown if and only if n mod c > 0.
C2_Original ==
    \A t \in Threads : tpc[t] = "closed" =>
        /\ nflush_auto[t] = NumExecuted(t) \div MAX_NUM_MEM_REFS
        /\ nflush_exit[t] = IF NumExecuted(t) % MAX_NUM_MEM_REFS > 0 THEN 1 ELSE 0

\* C2: with n accesses executed and capacity c, memtrace has been called
\* floor(n/c) times through the code cache (between instructions and from
\* teardown on), and teardown calls it exactly once more, whatever n mod c is;
\* that last call dumps the n mod c records left.
C2_Flushes ==
    \A t \in Threads :
        /\ tpc[t] \in {"active"} \cup ExitPcs =>
              nflush_auto[t] = NumExecuted(t) \div MAX_NUM_MEM_REFS
        /\ tpc[t] \in ExitPcs =>
              /\ nflush_exit[t] = 1
              /\ LastBatch(log[t]) = NumExecuted(t) % MAX_NUM_MEM_REFS
        /\ tpc[t] \notin ExitPcs => nflush_exit[t] = 0

C2_Witness ==
    \E t \in Threads :
        /\ tpc[t] = "closed"
        /\ nflush_auto[t] >= 2
        /\ nflush_exit[t] = 1
        /\ NumExecuted(t) % MAX_NUM_MEM_REFS = 0

\* C3: once every thread has torn down, num_refs is the number of accesses all
\* the threads executed, and so is the count event_exit reports.
C3_GlobalCount ==
    /\ (\A t \in Threads : tpc[t] \in {"uninit", "closed"}) =>
           num_refs = SumTo(ExecutedLens, NumThreads)
    /\ reported # NoVal => reported = SumTo(ExecutedLens, NumThreads)

C3_Witness ==
    /\ \A t \in Threads : tpc[t] = "closed" /\ NumExecuted(t) >= 1
    /\ reported # NoVal

\* the memory-reference operands of a list of operands, in operand order
MemOpnds(ops) == SelectSeq(ops, opnd_is_memory_reference)
ExpectedRefs(ins) ==
    LET ms == MemOpnds(ins.srcs)
        md == MemOpnds(ins.dsts)
    IN [j \in 1..(Len(ms) + Len(md)) |->
          IF j <= Len(ms)
          THEN [write |-> 0, addr |-> ms[j].addr, size |-> ms[j].size, pc |-> ins.pc]
          ELSE [write |-> 1, addr |-> md[j - Len(ms)].addr,
                size |-> md[j - Len(ms)].size, pc |-> ins.pc]]

\* C4: when the injected code of an instruction with application address and
\* k memory-reference operands has run and the instruction is about to
\* execute, exactly k records were appended for it: its memory sources in
\* operand order as reads, then its memory destinations in operand order as
\* writes, each with the instruction's address as pc.
C4_OperandOrder ==
    \A t \in Threads :
        (tpc[t] = "app" /\ Instrs[cur[t]].pc # NULL) =>
            Appended(t) = executed[t] \o ExpectedRefs(Instrs[cur[t]])

\* the instruction with two memory sources and one memory destination is about
\* to execute, and the buffer filled up in the middle of its injected code
C4_Witness ==
    \E t \in Threads :
        /\ tpc[t] = "app"
        /\ Len(ExpectedRefs(Instrs[cur[t]])) = 3
        /\ nflush_auto[t] = 1
        /\ Pending(t) = 1

\* C5: while the thread's data is allocated, buf_base <= buf_ptr <= buf_base +
\* MAX_NUM_MEM_REFS * sizeof(mem_ref_t), after any appends and flushes.
C5_CursorInBounds ==
    \A t \in Threads : data_alloc[t] = "live" =>
        /\ buf_base[t] <= buf_ptr[t]
        /\ buf_ptr[t] <= buf_base[t] + MAX_NUM_MEM_REFS * RecordSize

\* the buffer is full a second time: the cursor is at the end again after a flush
C5_Witness ==
    \E t \in Threads :
        /\ tpc[t] = "call"
        /\ buf_ptr[t] = buf_base[t] + MAX_NUM_MEM_REFS * RecordSize
        /\ nflush_auto[t] >= 1

\* C6 as stated: memtrace on an empty buffer is a no-op: nothing is written to
\* the log and no state changes.
C6_Original ==
    [][\A t \in Threads : (Flushed(t) /\ Pending(t) = 0) =>
          /\ log'[t] = log[t]
          /\ buf_ptr'[t] = buf_ptr[t]
          /\ data_num_refs'[t] = data_num_refs[t]]_vars

\* C6: memtrace on an empty buffer writes no record line, leaves buf_ptr at
\* buf_base and data->num_refs unchanged; it does write the "Format:" header
\* line to the log once more, and it zeroes the buffer.
C6_EmptyFlush ==
    [][\A t \in Threads : (Flushed(t) /\ Pending(t) = 0) =>
          /\ log'[t] = Append(log[t], FormatHeader)
          /\ LogRefsOf(log'[t]) = LogRefsOf(log[t])
          /\ buf_ptr[t] = buf_base[t]
          /\ buf_ptr'[t] = buf_base[t]
          /\ data_num_refs'[t] = data_num_refs[t]
          /\ \A i \in Slots : buf'[t][i] = ZeroRef]_vars

\* the flush at thread exit came right after a flush through the code cache
C6_Witness ==
    \E t \in Threads :
        /\ nflush_exit[t] = 1
        /\ nflush_auto[t] >= 1
        /\ NumExecuted(t) % MAX_NUM_MEM_REFS = 0
        /\ Len(log[t]) = nflush_auto[t] * (MAX_NUM_MEM_REFS + 1) + 1

\* C7: memtrace with p pending records appends exactly those p records to the
\* calling thread's own log, oldest first and as they were in the buffer
\* before it is cleared, adds p to data->num_refs, and leaves buf_ptr at
\* buf_base and every slot of the buffer zero; no other thread's log, buffer
\* or counter changes.
C7_Flush ==
    [][\A t \in Threads : Flushed(t) =>
          /\ LogRefsOf(log'[t]) = LogRefsOf(log[t]) \o PendingRefs(t)
          /\ Len(log'[t]) = Len(log[t]) + 1 + Pending(t)
          /\ data_num_refs'[t] = data_num_refs[t] + Pending(t)
          /\ buf_ptr'[t] = buf_base[t]
          /\ \A i \in Slots : buf'[t][i] = ZeroRef
          /\ \A u \in Threads \ {t} :
                /\ log'[u] = log[u]
                /\ buf'[u] = buf[u]
                /\ buf_ptr'[u] = buf_ptr[u]
                /\ data_num_refs'[u] = data_num_refs[u]]_vars

\* a full buffer was dumped through the code cache
C7_Witness ==
    \E t \in Threads :
        /\ tpc[t] = "restore"
        /\ nflush_auto[t] >= 1
        /\ Pending(t) = 0
        /\ Len(LogRefs(t)) >= MAX_NUM_MEM_REFS
        /\ data_num_refs[t] = Len(LogRefs(t))

\* C8: event_thread_exit does its steps once each and in this order: the
\* final memtrace, dr_mutex_lock, num_refs += data->num_refs, dr_mutex_unlock,
\* and only then log_file_close and the two dr_thread_free; the count it adds
\* is data->num_refs after the final flush, which is every access the thread
\* executed.
C8_FinalizeOrder ==
    \A t \in Threads :
        /\ IsPrefix(exit_steps[t], ExitOrder)
        /\ (tpc[t] \in ExitPcs) = (exit_steps[t] # <<>>)
        /\ tpc[t] \in ExitPcs =>
              /\ Pending(t) = 0
              /\ data_num_refs[t] = NumExecuted(t)
        /\ merged[t] # NoVal => merged[t] = NumExecuted(t)
        /\ (mutex.owner = t) = (tpc[t] \in MergePcs)
        /\ log_open[t] = "closed" => (merged[t] # NoVal /\ mutex.owner # t)
        /\ buf_alloc[t] = "freed" => log_open[t] = "closed"
        /\ data_alloc[t] = "freed" => buf_alloc[t] = "freed"
        /\ tpc[t] = "closed" => exit_steps[t] = ExitOrder

\* a thread has finished teardown and merged records that only its final
\* flush counted
C8_Witness ==
    \E t \in Threads :
        /\ tpc[t] = "closed"
        /\ merged[t] >= 1
        /\ merged[t] % MAX_NUM_MEM_REFS # 0
        /\ num_refs >= merged[t]

\* C9: when event_exit runs (the report is made, then the code cache and the
\* mutex are destroyed), every thread that started has finished
\* event_thread_exit: its records are all in its log and its count is in the
\* reported total.
C9_AllFinalized ==
    spc \in {"exit_code_cache", "exit_mutex", "ended"} =>
        /\ \A t \in Threads : tpc[t] # "uninit" =>
              /\ tpc[t] = "closed"
              /\ LogRefs(t) = executed[t]
              /\ merged[t] = NumExecuted(t)
        /\ reported = SumTo(ExecutedLens, NumThreads)
        /\ mutex.owner = 0

C9_Witness ==
    /\ spc = "ended"
    /\ \E t \in Threads : tpc[t] = "closed" /\ NumExecuted(t) % MAX_NUM_MEM_REFS # 0
    /\ reported >= 1

\* C10 as stated: the mutex serializes the merges against each other and
\* against the read of num_refs for the report, so that read is made with the
\* mutex held.
C10_Original ==
    [][/\ \A t \in Threads : tpc'[t] \in MergePcs => mutex'.owner = t
       /\ reported' # reported => mutex.owner # 0]_vars

\* C10: at most one thread is between dr_mutex_lock and dr_mutex_unlock of
\* event_thread_exit, and it owns the mutex; event_exit reads num_refs without
\* taking the mutex, and that read still overlaps no merge, because event_exit
\* runs after every thread's event_thread_exit: no merge is in progress then
\* and num_refs no longer changes after the report.
C10_Serialized ==
    /\ \A t, u \in Threads : (tpc[t] \in MergePcs /\ tpc[u] \in MergePcs) => t = u
    /\ \A t \in Threads : tpc[t] \in MergePcs => mutex.owner = t
    /\ reported # NoVal =>
          /\ \A t \in Threads : tpc[t] \notin MergePcs
          /\ reported = num_refs

\* one thread is inside the merge while another waits for the mutex
C10_Witness ==
    \E t, u \in Threads :
        /\ tpc[t] = "exit_store"
        /\ tpc[u] = "exit_lock"
        /\ data_num_refs[u] >= 1

-----------------------------------------------------------------------------
(* The life of a thread *)

ActivePcs == {"active", "fast", "call", "restore", "app"}
\* The state of the thread's trace: Flushing is the thread inside the lean
\* procedure of the code cache; the flush of event_thread_exit is the first
\* statement of the teardown and is taken in the step that leaves Active.
Phase(t) ==
    CASE tpc[t] = "uninit" -> "Uninitialized"
      [] tpc[t] \in ActivePcs -> "Active"
      [] tpc[t] = "code_cache" -> "Flushing"
      [] tpc[t] \in ExitPcs -> "Finalizing"
      [] tpc[t] = "closed" -> "Closed"
      [] OTHER -> "Lost"
PhaseSteps ==
    {<<"Uninitialized", "Active">>, <<"Active", "Flushing">>, <<"Flushing", "Active">>,
     <<"Active", "Finalizing">>, <<"Finalizing", "Closed">>}

-----------------------------------------------------------------------------
(* The registers of the injected sequence *)

\* C12: the injected sequence saves XBX and XCX into SPILL_SLOT_2 and
\* SPILL_SLOT_3 before it uses them and restores both at its restore label,
\* which the direct path and the path through the lean procedure both reach:
\* whenever a thread runs application code or begins a sequence, the two
\* registers hold the application's values, and from the test of the buffer
\* to the restore label the two slots hold them.
C12_RegistersPreserved ==
    \A t \in Threads :
        /\ tpc[t] \in {"active", "app", "fast"} =>
               /\ xbx[t] = AppXBX(t)
               /\ xcx[t] = AppXCX(t)
        /\ tpc[t] \in {"call", "code_cache", "restore"} =>
               /\ slot2[t] = AppXBX(t)
               /\ slot3[t] = AppXCX(t)

\* an instruction is about to execute after its last sequence went through
\* the lean procedure, and an earlier sequence took the direct path
C12_Witness ==
    \E t \in Threads :
        /\ tpc[t] = "app"
        /\ nflush_auto[t] >= 1
        /\ Pending(t) = 0
        /\ xbx[t] = AppXBX(t)
        /\ xcx[t] = AppXCX(t)

-----------------------------------------------------------------------------
(* The lean procedure and its return *)

\* C13: a thread in the lean procedure holds in XCX the address of the
\* restore label of the very sequence that jumped there, whichever of the
\* sequences that was; the procedure calls memtrace once, for that thread and
\* no other, and leaves by jmp *XCX to that label, with XCX as it was; from
\* the restore label of an instruction's last sequence the thread reaches the
\* instruction with one record appended per sequence, and the instruction
\* then executes once.
C13_Trampoline ==
    [][\A t \in Threads :
          /\ tpc'[t] = "code_cache" =>
                 /\ <<cur'[t], opi'[t]>> \in Sites
                 /\ xcx'[t] = LabelAddr(cur'[t], opi'[t])
          /\ (tpc[t] = "code_cache" /\ tpc'[t] # "code_cache") =>
                 /\ nflush_auto'[t] = nflush_auto[t] + 1
                 /\ \A u \in Threads \ {t} :
                        /\ nflush_auto'[u] = nflush_auto[u]
                        /\ log'[u] = log[u]
                 /\ tpc'[t] = "restore"
                 /\ cur'[t] = cur[t] /\ opi'[t] = opi[t]
                 /\ xcx'[t] = xcx[t]
                 /\ Appended(t)' = Appended(t)
          /\ (tpc'[t] = "app" /\ tpc[t] # "app") =>
                 /\ tpc[t] \in {"active", "restore"}
                 /\ Len(Appended(t)') =
                        Len(executed[t]) + Len(event_bb_insert(Instrs[cur'[t]]))
          /\ (tpc[t] = "app" /\ tpc'[t] # "app") =>
                 /\ tpc'[t] = "active"
                 /\ executed'[t] = executed[t] \o Accesses(Instrs[cur[t]])]_vars

\* a sequence that is not the first of its instruction has gone through the
\* lean procedure, and the thread is back at that sequence's restore label
C13_Witness ==
    \E t \in Threads :
        /\ tpc[t] = "restore"
        /\ opi[t] = 2
        /\ Pending(t) = 0
        /\ nflush_auto[t] >= 1
        /\ xcx[t] = LabelAddr(cur[t], 2)

-----------------------------------------------------------------------------
(* Ownership of the per-thread data *)

\* what thread t has appended or is appending: the records of the instructions
\* it has executed and of the one it is at
OwnRecords(t) ==
    executed[t] \o (IF cur[t] = 0 THEN <<>> ELSE event_bb_insert(Instrs[cur[t]]))
PrivateData(t) == <<buf[t], buf_ptr[t], data_num_refs[t], log[t]>>

\* C14: a thread's buffer, buf_ptr, data->num_refs and log change only in a
\* step of that thread, so a step of one thread changes no other thread's; a
\* flush writes to the thread's log the records of the thread's own buffer,
\* and every record of a thread's log is one that thread appended.
C14_Ownership ==
    [][\A t \in Threads :
          /\ PrivateData(t)' # PrivateData(t) =>
                 /\ tpc'[t] # tpc[t]
                 /\ \A u \in Threads \ {t} : PrivateData(u)' = PrivateData(u)
          /\ Flushed(t) => LogRefs(t)' = LogRefs(t) \o PendingRefs(t)
          /\ IsPrefix(LogRefs(t)', OwnRecords(t)')]_vars

\* two threads have flushed, and their logs hold different records
C14_Witness ==
    \E t, u \in Threads :
        /\ LogRefs(t) # <<>>
        /\ LogRefs(u) # <<>>
        /\ LogRefs(t) # LogRefs(u)
        /\ nflush_auto[t] >= 1

-----------------------------------------------------------------------------
(* Instructions that get no injected code *)

NumMemOpnds(ins) == Len(MemOpnds(ins.srcs)) + Len(MemOpnds(ins.dsts))
NoInjection(ins) == instr_get_app_pc(ins) = NULL \/ NumMemOpnds(ins) = 0
\* the instruction thread t is at in this step, 0 if none
StepInstr(t) == IF cur[t] # 0 THEN cur[t] ELSE cur'[t]

\* C17: event_bb_insert injects one sequence per memory-reference operand of
\* an instruction with application address and none for its other operands;
\* an instruction without memory-reference operand, or without application
\* address, gets none: the thread goes from reaching it straight to executing
\* it and on, and these steps change neither its buffer, buf_ptr,
\* data->num_refs and log nor the flush counts nor num_refs.
C17_NoInjection ==
    [][/\ \A i \in 1..Len(Instrs) :
             Len(event_bb_insert(Instrs[i])) =
                 IF NoInjection(Instrs[i]) THEN 0 ELSE NumMemOpnds(Instrs[i])
       /\ \A t \in Threads :
             (/\ tpc'[t] # tpc[t]
              /\ StepInstr(t) # 0
              /\ NoInjection(Instrs[StepInstr(t)])) =>
                 /\ \/ tpc[t] = "active" /\ tpc'[t] = "app"
                    \/ tpc[t] = "app" /\ tpc'[t] = "active"
                 /\ PrivateData(t)' = PrivateData(t)
                 /\ nflush_auto' = nflush_auto
                 /\ nflush_exit' = nflush_exit
                 /\ num_refs' = num_refs]_vars

\* a thread with a record in its buffer has reached, and is about to execute,
\* an instruction that has memory operands but no application address
C17_Witness ==
    \E t \in Threads :
        /\ tpc[t] = "app"
        /\ instr_get_app_pc(Instrs[cur[t]]) = NULL
        /\ NumMemOpnds(Instrs[cur[t]]) >= 1
        /\ Pending(t) >= 1

-----------------------------------------------------------------------------
(* The global num_refs *)

\* C18: num_refs changes only by the store of num_refs += data->num_refs in
\* event_thread_exit, made by a thread that holds the mutex, and grows by
\* that thread's data->num_refs; no step of a thread that is executing
\* instructions, appending or flushing through the lean procedure changes
\* it; it is loaded only for that addition, with the mutex held, and by
\* event_exit for the final report.
C18_GlobalCounter ==
    [][/\ num_refs' # num_refs =>
             \E t \in Threads :
                 /\ tpc[t] = "exit_store" /\ tpc'[t] = "exit_unlock"
                 /\ mutex.state = "live" /\ mutex.owner = t
                 /\ num_refs' = num_refs + data_num_refs[t]
       /\ \A t \in Threads :
             /\ tmp'[t] # tmp[t] =>
                    /\ tpc[t] = "exit_load"
                    /\ mutex.owner = t
                    /\ tmp'[t] = num_refs
             /\ (Phase(t) \in {"Active", "Flushing"} /\ tpc'[t] # tpc[t]) =>
                    num_refs' = num_refs
       /\ reported' # reported =>
             /\ spc = "running" /\ spc' # "running"
             /\ reported' = num_refs]_vars

\* the count has been reported after a thread that flushed through the lean
\* procedure merged its count
C18_Witness ==
    /\ reported >= MAX_NUM_MEM_REFS
    /\ \E t \in Threads : nflush_auto[t] >= 1 /\ merged[t] >= MAX_NUM_MEM_REFS

-----------------------------------------------------------------------------
(* The test of the injected code *)

BufEnd(t) == buf_base[t] + MEM_BUF_SIZE

\* C19: while a thread's data is allocated, the sum of buf_ptr and buf_end
\* that jecxz tests is 0 exactly when buf_ptr = buf_base + MEM_BUF_SIZE, for
\* the thread's buf_ptr and for every record boundary of its buffer; that
\* agrees with the documented comparison buf_ptr >= the end of the buffer; the
\* thread is on its way to or inside the lean procedure exactly when the test
\* is true, and a thread about to append has room for the record.
C19_OverflowTest ==
    \A t \in Threads :
        data_alloc[t] = "live" =>
            /\ \A k \in 0..MAX_NUM_MEM_REFS :
                   BufferFull(buf_base[t] + k * RecordSize, buf_end[t])
                       <=> (k = MAX_NUM_MEM_REFS)
            /\ BufferFull(buf_ptr[t], buf_end[t]) <=> (buf_ptr[t] = BufEnd(t))
            /\ BufferFull(buf_ptr[t], buf_end[t]) <=> (buf_ptr[t] >= BufEnd(t))
            /\ BufferFull(buf_ptr[t], buf_end[t]) <=> (tpc[t] \in {"call", "code_cache"})
            /\ tpc[t] = "fast" => buf_ptr[t] + RecordSize <= BufEnd(t)

\* the append that filled the buffer has left 0 in XCX and the thread is at
\* the call label
C19_Witness ==
    \E t \in Threads :
        /\ tpc[t] = "call"
        /\ buf_ptr[t] = BufEnd(t)
        /\ xcx[t] = 0

-----------------------------------------------------------------------------
(* buf_end *)

\* C20: from event_thread_init until the thread's data is freed, buf_end is
\* the negation, in pointer width, of buf_base + MAX_NUM_MEM_REFS *
\* sizeof(mem_ref_t), and buf_base is the address of the thread's buffer;
\* both are written by event_thread_init only, so no append and no flush
\* changes either.
C20_NegatedEnd ==
    [][\A t \in Threads :
          /\ data_alloc'[t] = "live" =>
                 /\ buf_end'[t] \in 0..(PtrMod - 1)
                 /\ (buf_end'[t] + buf_base'[t] + MAX_NUM_MEM_REFS * RecordSize)
                        % PtrMod = 0
                 /\ buf_base'[t] = BufAddr(t)
          /\ (buf_end'[t] # buf_end[t] \/ buf_base'[t] # buf_base[t]) =>
                 /\ tpc[t] = "uninit"
                 /\ data_alloc[t] # "live"
          /\ (data_alloc[t] = "live" /\ (Flushed(t) \/ buf_ptr'[t] # buf_ptr[t])) =>
                 /\ buf_end'[t] = buf_end[t]
                 /\ buf_base'[t] = buf_base[t]]_vars

\* a thread has appended, flushed through the lean procedure and appended again
C20_Witness ==
    \E t \in Threads :
        /\ data_alloc[t] = "live"
        /\ nflush_auto[t] >= 1
        /\ Pending(t) >= 1
        /\ (buf_end[t] + BufEnd(t)) % PtrMod = 0

-----------------------------------------------------------------------------
(* Failures *)

\* C15 as stated: when the writes of a flush fail, the failure is reported,
\* the session goes on, the buffer is reset (buf_ptr back at buf_base, the
\* storage cleared), the thread continues, and the log loses the records of
\* that flush and no others.
C15_Original ==
    [][\A t \in Threads :
          lost'[t] # lost[t] =>
              /\ failure_reports' > failure_reports
              /\ spc' = spc
              /\ buf_ptr'[t] = buf_base[t]
              /\ \A i \in Slots : buf'[t][i] = ZeroRef
              /\ tpc'[t] \in {"restore", "exit_lock"}
              /\ log'[t] = log[t]
              /\ lost'[t] = lost[t] + Pending(t)]_vars

\* C16: when the host cannot allocate the code cache, the per_thread_t or the
\* buffer, it ends the process: a thread that runs instrumented code, appends
\* or diverts has its per_thread_t and buffer allocated and the code cache in
\* place; after a failed allocation of the code cache no thread was ever
\* started, and a thread whose allocation failed never got further.
C16_AllocationFatal ==
    /\ \A t \in Threads :
          /\ Phase(t) \in {"Active", "Flushing"} =>
                 /\ data_alloc[t] = "live"
                 /\ buf_alloc[t] = "live"
                 /\ code_cache = "rx"
                 /\ spc = "running"
          /\ (Pending(t) > 0 \/ log[t] # <<>> \/ nflush_auto[t] > 0) =>
                 /\ data_alloc[t] # "none"
                 /\ buf_alloc[t] # "none"
                 /\ code_cache # "none"
          /\ data_alloc[t] = "none" => tpc[t] \in {"uninit", "dead"}
    /\ code_cache = "none" =>
          \A t \in Threads : tpc[t] \in {"uninit", "dead"} /\ data_alloc[t] = "none"
    /\ spc = "fatal" <=> (\A t \in Threads : tpc[t] = "dead")

\* the process has ended on a failed allocation for one thread, while another
\* thread had its buffer and was appending
C16_Witness ==
    /\ spc = "fatal"
    /\ \E t, u \in Threads :
          /\ tpc[t] = "dead" /\ data_alloc[t] = "none"
          /\ data_alloc[u] = "live" /\ Pending(u) >= 1

-----------------------------------------------------------------------------
(* The order of the injected sequence *)

FastPcs == {FastOrder[i] : i \in 2..Len(FastOrder)}
\* how many instructions of the sequence thread t has executed
Done(t) == FastIndex(tpc[t]) - 1
\* buf_ptr as the sequence found it
CursorBefore(t) == IF Done(t) <= 7 THEN buf_ptr[t] ELSE buf_ptr[t] - RecordSize
\* the record with its first k fields, in the order write, addr, size, pc,
\* taken from r and the others from old
FirstFields(old, r, k) ==
    [write |-> IF k >= 1 THEN r.write ELSE old.write,
     addr  |-> IF k >= 2 THEN r.addr ELSE old.addr,
     size  |-> IF k >= 3 THEN r.size ELSE old.size,
     pc    |-> IF k >= 4 THEN r.pc ELSE old.pc]
StoredFields(t) == IF Done(t) <= 2 THEN 0 ELSE IF Done(t) >= 6 THEN 4 ELSE Done(t) - 2

\* C21: in the sequence injected for an operand, (a) the operand's address is
\* in reg1 before (b) buf_ptr is loaded into reg2; (c) the fields of the
\* mem_ref_t at buf_ptr are then stored one by one as write, addr, size, pc,
\* the fields not yet stored still holding what the slot held; (d) only then
\* is reg2 advanced by sizeof(mem_ref_t) and after that stored to buf_ptr;
\* (e) last comes the test, which sends the thread to the call label when
\* buf_ptr is at the end of the buffer and on to the restore label otherwise;
\* the records of an instruction, those of its writes too, are in the buffer
\* or the log before the instruction executes.
C21_SequenceOrder ==
    \A t \in Threads :
        /\ tpc[t] \in FastPcs =>
              LET rec == buf[t][RefDiff(CursorBefore(t), buf_base[t])]
              IN /\ Done(t) <= 7 => xbx[t] = Site(t).addr
                 /\ Done(t) \in 2..6 => xcx[t] = buf_ptr[t]
                 /\ CursorBefore(t) < BufEnd(t)
                 /\ \E old \in {ZeroRef, Garbage} :
                       rec = FirstFields(old, Site(t), StoredFields(t))
                 /\ Done(t) = 7 => xcx[t] = buf_ptr[t] + RecordSize
                 /\ Done(t) = 8 => xcx[t] = buf_ptr[t]
                 /\ Len(Appended(t)) = Len(executed[t]) + opi[t] - 1 + Done(t) \div 8
        /\ tpc[t] = "call" => buf_ptr[t] = BufEnd(t)
        /\ (tpc[t] = "restore" /\ Pending(t) > 0) =>
              /\ buf_ptr[t] < BufEnd(t)
              /\ buf[t][Pending(t) - 1] = Site(t)
        /\ tpc[t] = "app" =>
              Appended(t) = executed[t] \o event_bb_insert(Instrs[cur[t]])

\* the sequence of a write is half way: write and addr are stored, size and pc
\* are not, in a slot that was cleared by an earlier flush
C21_Witness ==
    \E t \in Threads :
        /\ tpc[t] = "fp_store_size"
        /\ Site(t).write = 1
        /\ nflush_auto[t] >= 1
        /\ buf[t][Pending(t)] = FirstFields(ZeroRef, Site(t), 2)

-----------------------------------------------------------------------------
(* The code cache *)

\* C22: the page of the lean procedure changes twice only: dr_client_main
\* builds it and leaves it read+execute before any thread has started, and
\* code_cache_exit frees it in event_exit, when no thread runs any more;
\* while the session runs, and whenever a thread is at a call label or in the
\* lean procedure, it is read+execute; every sequence of every instruction
\* jumps to the one address of it, whatever the thread.
C22_CodeCache ==
    [][/\ code_cache' # code_cache =>
             \/ /\ code_cache = "none" /\ code_cache' = "rx"
                /\ spc = "start"
                /\ \A t \in Threads : tpc[t] = "uninit"
             \/ /\ code_cache = "rx" /\ code_cache' = "freed"
                /\ spc = "exit_code_cache"
                /\ \A t \in Threads : tpc[t] \in {"uninit", "closed"}
       /\ spc' = "running" => code_cache' = "rx"
       /\ \A t \in Threads :
             /\ tpc'[t] \in ActivePcs \cup {"code_cache"} => code_cache' = "rx"
             /\ (tpc[t] = "call" /\ tpc'[t] # "call") =>
                    /\ tpc'[t] = "code_cache"
                    /\ code_cache_pc(cur[t], opi[t]) = CodeCacheAddr
       /\ \A s \in Sites : code_cache_pc(s[1], s[2]) = CodeCacheAddr]_vars

\* the page has been freed after two threads went through the lean procedure
C22_Witness ==
    /\ code_cache = "freed"
    /\ \A t \in Threads : nflush_auto[t] >= 1

-----------------------------------------------------------------------------
(* Progress of the teardown *)

\* C23: on a host that schedules fairly, every thread that has begun
\* event_thread_exit finishes it, however many threads are in it at once; a
\* thread that owns the mutex gives it up; a thread in the lean procedure
\* leaves it, the flush taking no lock.
C23_TeardownCompletes ==
    \A t \in Threads :
        /\ (tpc[t] \in ExitPcs) ~> (tpc[t] = "closed")
        /\ (mutex.owner = t) ~> (mutex.owner # t)
        /\ (tpc[t] = "code_cache") ~> (tpc[t] # "code_cache")

\* one thread waits in dr_mutex_lock while another, its merge made, is about
\* to unlock
C23_Witness ==
    \E t, u \in Threads :
        /\ tpc[t] = "exit_lock"
        /\ tpc[u] = "exit_unlock"
        /\ mutex.owner = u
        /\ merged[u] # NoVal

-----------------------------------------------------------------------------
(* Stores stay inside the buffer *)

StorePcs == {"fp_store_write", "fp_store_addr", "fp_store_size", "fp_store_pc"}
InBuffer(t, p) == buf_base[t] <= p /\ p + RecordSize <= BufEnd(t)

\* C25: no mem_ref_t is stored at or past buf_base + MEM_BUF_SIZE: a thread
\* that starts an injected sequence has buf_ptr below the end with room for
\* one record, every field store goes through a reg2 that holds that buf_ptr,
\* and a thread that has resumed after the lean procedure, or is anywhere
\* outside the overflow path, has buf_ptr below the end again.
C25_NoWriteBeyondEnd ==
    \A t \in Threads :
        data_alloc[t] = "live" =>
            /\ tpc[t] \in {"fast", "fp_load_ptr"} => InBuffer(t, buf_ptr[t])
            /\ tpc[t] \in StorePcs =>
                   /\ xcx[t] = buf_ptr[t]
                   /\ InBuffer(t, xcx[t])
                   /\ RefDiff(xcx[t], buf_base[t]) \in Slots
                   /\ (xcx[t] - buf_base[t]) % RecordSize = 0
            /\ tpc[t] \in {"active", "restore", "app"} => buf_ptr[t] < BufEnd(t)
            /\ tpc[t] = "restore" /\ xcx[t] \in {LabelAddr(s[1], s[2]) : s \in Sites}
                   => buf_ptr[t] = buf_base[t]

\* after a flush the thread has filled the buffer up to its last mem_ref_t
\* again and is storing the last field of that one
C25_Witness ==
    \E t \in Threads :
        /\ tpc[t] = "fp_store_pc"
        /\ nflush_auto[t] >= 1
        /\ xcx[t] = BufEnd(t) - RecordSize

-----------------------------------------------------------------------------
(* Conservation of the count *)

\* the operands of the instruction the thread is about to execute that the
\* injected code has recorded already
Recorded(t) ==
    IF cur[t] = 0 THEN 0
    ELSE IF tpc[t] = "fast" THEN opi[t] - 1
    ELSE IF tpc[t] = "app" THEN Len(event_bb_insert(Instrs[cur[t]]))
    ELSE opi[t]

\* C26 as stated: between two instructions data->num_refs plus the pending
\* records is the number of accesses executed, and right after any call of
\* memtrace data->num_refs alone is that number.
C26_Original ==
    /\ [](\A t \in Threads : tpc[t] = "active" =>
             data_num_refs[t] + Pending(t) = NumExecuted(t))
    /\ [][\A t \in Threads : Flushed(t) =>
             data_num_refs'[t] = NumExecuted(t)']_vars

\* C26: as long as a thread's data is allocated, data->num_refs plus the
\* pending records is the number of accesses the thread has executed plus the
\* operands already recorded for the instruction it is about to execute, which
\* are none between two instructions; right after a call of memtrace nothing
\* is pending and data->num_refs alone is that sum, so that it is ahead of the
\* executed accesses after a flush from the lean procedure and equal to them
\* after the flush of event_thread_exit.
C26_Conservation ==
    /\ [](\A t \in Threads : data_alloc[t] = "live" =>
             /\ data_num_refs[t] + Pending(t) = NumExecuted(t) + Recorded(t)
             /\ tpc[t] = "active" => Recorded(t) = 0)
    /\ [][\A t \in Threads : Flushed(t) =>
             /\ Pending(t)' = 0
             /\ data_num_refs'[t] = NumExecuted(t)' + Recorded(t)'
             /\ nflush_auto'[t] # nflush_auto[t] => Recorded(t)' >= 1
             /\ nflush_exit'[t] # nflush_exit[t] => Recorded(t)' = 0]_vars

\* the lean procedure has flushed in the middle of the code injected before an
\* instruction: the count is ahead of the accesses executed
C26_Witness ==
    \E t \in Threads :
        /\ tpc[t] = "restore"
        /\ nflush_auto[t] >= 1
        /\ Pending(t) = 0
        /\ data_num_refs[t] > NumExecuted(t)

-----------------------------------------------------------------------------
(* The life of a thread's buffer *)

\* where a thread appends to, drains or reads its buffer and per_thread_t
UsePcs == ActivePcs \cup FastPcs \cup {"code_cache", "exit_lock", "exit_load",
                                       "exit_store", "exit_unlock", "exit_close",
                                       "exit_free_buf"}

\* C27: a thread's buffer is allocated by event_thread_init, with buf_ptr at
\* buf_base and num_refs 0; it is freed by event_thread_exit only after the
\* flush of that event and the merge into the global num_refs; once freed it
\* stays freed, and neither the buffer, buf_ptr, num_refs nor the log changes
\* again; wherever a thread uses its buffer or its data they are allocated,
\* and a closed thread has both freed.
C27_BufferLifecycle ==
    /\ [](\A t \in Threads :
             /\ tpc[t] \in UsePcs => buf_alloc[t] = "live" /\ data_alloc[t] = "live"
             /\ tpc[t] = "uninit" => buf_alloc[t] = "none" /\ data_alloc[t] = "none"
             /\ tpc[t] = "closed" => buf_alloc[t] = "freed" /\ data_alloc[t] = "freed"
             /\ buf_alloc[t] = "freed" => tpc[t] \in {"exit_free_data", "closed"})
    /\ [][\A t \in Threads :
             /\ buf_alloc'[t] # buf_alloc[t] =>
                    \/ /\ buf_alloc[t] = "none" /\ buf_alloc'[t] = "live"
                       /\ tpc[t] = "uninit"
                       /\ buf_ptr'[t] = buf_base'[t]
                       /\ data_num_refs'[t] = 0
                       /\ Pending(t)' = 0
                    \/ /\ buf_alloc[t] = "live" /\ buf_alloc'[t] = "freed"
                       /\ tpc[t] = "exit_free_buf"
                       /\ nflush_exit[t] = 1
                       /\ merged[t] # NoVal
                       /\ exit_steps[t] = SubSeq(ExitOrder, 1, 5)
             /\ buf_alloc[t] = "freed" =>
                    /\ buf_alloc'[t] = "freed"
                    /\ PrivateData(t)' = PrivateData(t)
                    /\ buf_base'[t] = buf_base[t]
             /\ data_alloc[t] = "freed" =>
                    /\ data_alloc'[t] = "freed"
                    /\ tpc'[t] = "closed"
             /\ buf_alloc[t] = "none" /\ buf_alloc'[t] = "none" =>
                    PrivateData(t)' = PrivateData(t)]_vars

\* one thread, which has flushed a full buffer before, is closed with its
\* buffer freed while another still has a record pending in its own
C27_Witness ==
    \E t, u \in Threads :
        /\ tpc[t] = "closed"
        /\ buf_alloc[t] = "freed"
        /\ nflush_auto[t] >= 1
        /\ tpc[u] = "active"
        /\ Pending(u) >= 1

-----------------------------------------------------------------------------
(* drreg: a reservation is exclusive *)

\* the one register of a vector that allows exactly one
Only(allowed) == DR_REG_START_GPR + CHOOSE i \in allowed : TRUE

\* C24: no CHECK of the test client fails; a drreg_reserve_register whose
\* vector allows one register alone fails with DRREG_ERROR_REG_CONFLICT,
\* reserves nothing and leaves *reg as it was if that register is reserved,
\* and succeeds with exactly that register, now reserved, if it is free; a
\* drreg_unreserve_register of a reserved register succeeds and the register
\* is free, so that a request for it alone succeeds again.
C24_Exclusive ==
    /\ dtest.pc # "aborted"
    /\ reserved \subseteq GPRs
    /\ dcall.op = "reserve" /\ Cardinality(dcall.allowed) = 1 =>
           IF Only(dcall.allowed) \in dcall.before
           THEN /\ dcall.res = "DRREG_ERROR_REG_CONFLICT"
                /\ reserved = dcall.before
                /\ dcall.reg = dcall.out
                /\ dtest.reg = dcall.out
           ELSE /\ dcall.res = "DRREG_SUCCESS"
                /\ dcall.reg = Only(dcall.allowed)
                /\ reserved = dcall.before \cup {Only(dcall.allowed)}
    /\ dcall.op = "unreserve" /\ dcall.arg \in dcall.before =>
           /\ dcall.res = "DRREG_SUCCESS"
           /\ reserved = dcall.before \ {dcall.arg}
           /\ drreg_reserve_register(reserved, {dcall.arg - DR_REG_START_GPR}, dtest.reg)
                  = {[res |-> "DRREG_SUCCESS", reg |-> dcall.arg,
                      reserved |-> reserved \cup {dcall.arg}]}
    /\ dtest.pc = "reserve_again" => TEST_REG \in reserved
    /\ dtest.pc \in {"reserve_allowed", "label_reserve"} => TEST_REG \notin reserved

\* in its second block the test client has asked for TEST_REG again while it
\* holds it, and was refused
C24_Witness ==
    /\ dtest.pc = "unreserve_allowed"
    /\ dtest.nblocks = 2
    /\ dcall.op = "reserve"
    /\ dcall.res = "DRREG_ERROR_REG_CONFLICT"
    /\ dcall.before = {TEST_REG}
    /\ reserved = {TEST_REG}

-----------------------------------------------------------------------------
(* cbrtrace: one line per executed conditional branch *)

\* the line the sample's header promises for an executed branch
ExpectedLine(e) ==
    <<e.bb, e.instr.pc, e.instr.fall, e.instr.targ,
      IF e.taken = 0 THEN e.instr.fall ELSE e.instr.targ>>

\* C28: in every block built, exactly the conditional branches carry the
\* clean call, with the block's address; the log of each thread that has
\* started holds one line for each conditional branch that thread executed,
\* in order and no other, with the block's, the branch's, the fall-through
\* and the target address and, as destination, the fall-through address when
\* taken is 0 and the target otherwise; a running thread's TLS field is the
\* descriptor of its own open log, which no other running thread has.
C28_BranchLog ==
    /\ \A b \in CbrBlocks : b.tag \in DOMAIN cbr_cache =>
           /\ Len(cbr_cache[b.tag]) = Len(b.instrs)
           /\ \A i \in 1..Len(b.instrs) :
                 /\ cbr_cache[b.tag][i].instr = b.instrs[i]
                 /\ cbr_cache[b.tag][i].hook =
                        (IF b.instrs[i].cbr THEN b.tag ELSE NoVal)
    /\ \A t \in Threads :
           /\ cbr_tpc[t] = "uninit" => t \notin DOMAIN cbr_files /\ cbr_taken[t] = <<>>
           /\ cbr_tpc[t] # "uninit" =>
                 /\ t \in DOMAIN cbr_files
                 /\ Len(cbr_files[t].lines) = Len(cbr_taken[t])
                 /\ \A i \in 1..Len(cbr_taken[t]) :
                       cbr_files[t].lines[i] = ExpectedLine(cbr_taken[t][i])
                 /\ cbr_files[t].state = (IF cbr_tpc[t] = "running" THEN "open" ELSE "closed")
           /\ cbr_tpc[t] = "running" =>
                 /\ cbr_tls[t] = cbr_files[t].fd
                 /\ \A u \in Threads \ {t} :
                       cbr_tpc[u] = "running" => cbr_tls[u] # cbr_tls[t]

\* a thread that started after another had exited, and so got that one's
\* descriptor, has logged a branch not taken; the other logged one taken
C28_Witness ==
    \E t, u \in Threads :
        /\ cbr_tpc[t] = "exited" /\ cbr_tpc[u] = "running"
        /\ cbr_tls[u] = cbr_tls[t]
        /\ Len(cbr_taken[t]) = 1 /\ cbr_taken[t][1].taken = 1
        /\ Len(cbr_taken[u]) = 1 /\ cbr_taken[u][1].taken = 0
        /\ cbr_files[u].lines = <<ExpectedLine(cbr_taken[u][1])>>

====
